---- MODULE Spec2Model ----
(***************************************************************************)
(* Model of the crime / location / weather / transit accumulation pipeline *)
(* (finalproject.py and src/*.py).  The SQLite store is modelled table by  *)
(* table: a table with an AUTOINCREMENT key is the sequence of its rows in  *)
(* insertion order (no operation deletes a row), so a row's key is its      *)
(* index.                                                                   *)
(***************************************************************************)
EXTENDS Integers, Sequences, FiniteSets, TLC

(***************************************************************************)
(* SQL NULL / Python None.  A nullable value is NULL or the one-element    *)
(* tuple <<v>>.                                                             *)
(***************************************************************************)
NULL == <<>>

Some(v) == <<v>>

IsNull(x) == x = NULL

Val(x) == x[1]

Min(a, b) == IF a <= b THEN a ELSE b

Max(a, b) == IF a >= b THEN a ELSE b

(* The first n elements of s: the Python slice s[:n] and SQL's LIMIT n. *)
Take(s, n) == SubSeq(s, 1, Min(n, Len(s)))

(* a sequence given by a rule, as the tuple of its elements *)
Tuple(f) == SubSeq(f, 1, Len(f))

(* finalproject.py, module constants *)
MIN_CRIME_ROWS == 100

MIN_LOCATION_ROWS == 100

MIN_WEATHER_ROWS == 100

MIN_TRANSIT_ROWS == 100

MAX_API_ITEMS_PER_RUN == 25

(***************************************************************************)
(* Dates.  A month string "YYYY-MM" stays a string; a date string          *)
(* "YYYY-MM-DD" is the tuple <<year, month, day>> of its zero-padded       *)
(* fields, whose lexicographic order is the order of the strings.          *)
(***************************************************************************)
MonthTable ==
    "2023-02" :> <<2023, 2>> @@ "2024-02" :> <<2024, 2>> @@
    "2000-02" :> <<2000, 2>> @@ "1900-02" :> <<1900, 2>> @@
    "2023-04" :> <<2023, 4>> @@ "2023-05" :> <<2023, 5>> @@
    "2023-06" :> <<2023, 6>> @@ "2023-07" :> <<2023, 7>> @@
    "2023-08" :> <<2023, 8>> @@ "2023-09" :> <<2023, 9>> @@
    "2023-12" :> <<2023, 12>>

ValidMonths == DOMAIN MonthTable

(* map(int, month_str.split("-")): <<year, month>>, or <<>> on ValueError *)
ParseMonth(month_str) ==
    IF month_str \in ValidMonths THEN MonthTable[month_str] ELSE <<>>

IsLeap(year) == (year % 4 = 0) /\ ((year % 100 # 0) \/ (year % 400 = 0))

(* calendar.monthrange(year, month)[1] *)
DaysInMonth(year, month) ==
    IF month = 2 THEN (IF IsLeap(year) THEN 29 ELSE 28)
    ELSE IF month \in {4, 6, 9, 11} THEN 30 ELSE 31

(***************************************************************************)
(* int(hashlib.md5(seed).hexdigest()[:8], 16) for the seeds of the model,  *)
(* tabulated from MD5 itself: a row is <<seed, high 16 bits, low 16 bits>>  *)
(* of the unsigned 32-bit value.                                            *)
(***************************************************************************)
MD5Rows ==
    <<
      <<"2023-02-seed", 57182, 55048>>, <<"2302001", 9499, 25558>>, <<"2302002", 61476, 44032>>,
      <<"2302003", 43694, 27703>>, <<"2302004", 13779, 65210>>, <<"2302005", 20688, 9997>>,
      <<"2302006", 19329, 35629>>, <<"2302007", 22488, 62619>>, <<"2302008", 11862, 13846>>,
      <<"2302009", 48484, 10816>>, <<"2302010", 21846, 39391>>, <<"2302011", 21861, 31630>>,
      <<"2302012", 12987, 62866>>, <<"2302013", 1265, 12231>>, <<"2302014", 2503, 33566>>,
      <<"2302015", 29337, 7937>>, <<"2302016", 18187, 34809>>, <<"2302017", 10491, 51081>>,
      <<"2302018", 44434, 56262>>, <<"2302019", 25927, 36307>>, <<"2302020", 2964, 58504>>,
      <<"2302021", 44868, 43167>>, <<"2302022", 36669, 33452>>, <<"2302023", 42610, 33498>>,
      <<"2302024", 60141, 52951>>, <<"2302025", 49101, 46883>>, <<"2302026", 37618, 55763>>,
      <<"2302027", 48907, 24853>>, <<"2302028", 23283, 6073>>, <<"2302029", 4843, 58751>>,
      <<"2302030", 6620, 9826>>, <<"2024-02-seed", 51143, 11723>>, <<"2402001", 4338, 15277>>,
      <<"2402002", 96, 43545>>, <<"2402003", 37197, 31161>>, <<"2402004", 41849, 39620>>,
      <<"2402005", 35869, 38251>>, <<"2402006", 43476, 38664>>, <<"2402007", 23018, 30948>>,
      <<"2402008", 46302, 24707>>, <<"2402009", 30337, 34426>>, <<"2402010", 57105, 16836>>,
      <<"2402011", 51184, 3696>>, <<"2402012", 1995, 48172>>, <<"2402013", 32953, 40308>>,
      <<"2402014", 29492, 50914>>, <<"2402015", 19443, 34840>>, <<"2402016", 56251, 43911>>,
      <<"2402017", 17209, 5245>>, <<"2402018", 13901, 58217>>, <<"2402019", 50428, 53848>>,
      <<"2402020", 9052, 55895>>, <<"2402021", 23398, 55116>>, <<"2402022", 5294, 6987>>,
      <<"2402023", 13131, 33078>>, <<"2402024", 9339, 54403>>, <<"2402025", 33643, 61389>>,
      <<"2402026", 38646, 63261>>, <<"2402027", 41652, 18558>>, <<"2402028", 31070, 20174>>,
      <<"2402029", 50495, 17932>>, <<"2402030", 61877, 7744>>, <<"2000-02-seed", 6978, 25291>>,
      <<"2001", 53499, 38463>>, <<"2002", 19362, 39839>>, <<"2003", 42385, 579>>,
      <<"2004", 47284, 46887>>, <<"2005", 54386, 26857>>, <<"2006", 59994, 18540>>,
      <<"2007", 40974, 24240>>, <<"2008", 61316, 18163>>, <<"2009", 61848, 7755>>,
      <<"2010", 55208, 17960>>, <<"2011", 51317, 35665>>, <<"2012", 9526, 5307>>,
      <<"2013", 32824, 55945>>, <<"2014", 52968, 54967>>, <<"2015", 26066, 59907>>,
      <<"2016", 38169, 11416>>, <<"2017", 36232, 6344>>, <<"2018", 34013, 64308>>,
      <<"2019", 60011, 12027>>, <<"2020", 31610, 21474>>, <<"2021", 1445, 52998>>,
      <<"2022", 14978, 16724>>, <<"2023", 21809, 42371>>, <<"2024", 1921, 7622>>,
      <<"2025", 12579, 20927>>, <<"2026", 51498, 4146>>, <<"2027", 40802, 47202>>,
      <<"2028", 55392, 60881>>, <<"2029", 2363, 24829>>, <<"2030", 11607, 40386>>,
      <<"1900-02-seed", 847, 43560>>, <<"2023-04-seed", 5047, 14543>>, <<"2304001", 7242, 52772>>,
      <<"2304002", 43780, 39926>>, <<"2304003", 36341, 60949>>, <<"2304004", 63674, 22500>>,
      <<"2304005", 17748, 47168>>, <<"2304006", 28210, 35477>>, <<"2304007", 13353, 44686>>,
      <<"2304008", 33028, 51792>>, <<"2304009", 10022, 25269>>, <<"2304010", 63186, 28781>>,
      <<"2304011", 24906, 19090>>, <<"2304012", 46021, 59048>>, <<"2304013", 23494, 3543>>,
      <<"2304014", 22896, 21012>>, <<"2304015", 44718, 22494>>, <<"2304016", 64228, 16818>>,
      <<"2304017", 33292, 45396>>, <<"2304018", 54278, 32350>>, <<"2304019", 8108, 48611>>,
      <<"2304020", 38748, 1416>>, <<"2304021", 60157, 4092>>, <<"2304022", 62467, 16748>>,
      <<"2304023", 52664, 23053>>, <<"2304024", 59824, 20730>>, <<"2304025", 27658, 19835>>,
      <<"2304026", 31812, 62681>>, <<"2304027", 45488, 27703>>, <<"2304028", 40162, 55723>>,
      <<"2304029", 35571, 54052>>, <<"2304030", 31086, 58389>>, <<"2023-05-seed", 21951, 56262>>,
      <<"2305001", 2322, 26231>>, <<"2305002", 14804, 52655>>, <<"2305003", 59929, 51201>>,
      <<"2305004", 27915, 49644>>, <<"2305005", 17857, 35117>>, <<"2305006", 15049, 11990>>,
      <<"2305007", 9601, 45896>>, <<"2305008", 54398, 29552>>, <<"2305009", 52670, 63661>>,
      <<"2305010", 53867, 47441>>, <<"2305011", 48725, 51994>>, <<"2305012", 60559, 5340>>,
      <<"2305013", 56262, 33121>>, <<"2305014", 893, 15646>>, <<"2305015", 38687, 36313>>,
      <<"2305016", 6703, 31606>>, <<"2305017", 17376, 26384>>, <<"2305018", 29433, 18463>>,
      <<"2305019", 30097, 39060>>, <<"2305020", 56919, 22557>>, <<"2305021", 13751, 37594>>,
      <<"2305022", 12942, 43900>>, <<"2305023", 47060, 13890>>, <<"2305024", 47180, 61343>>,
      <<"2305025", 23363, 2090>>, <<"2305026", 24913, 18523>>, <<"2305027", 35993, 48805>>,
      <<"2305028", 39064, 62014>>, <<"2305029", 1241, 63189>>, <<"2305030", 2445, 56299>>,
      <<"2023-06-seed", 14697, 27231>>, <<"2306001", 23953, 57551>>, <<"2306002", 25980, 32268>>,
      <<"2306003", 36486, 56779>>, <<"2306004", 49700, 35364>>, <<"2306005", 13732, 97>>,
      <<"2306006", 52685, 8470>>, <<"2306007", 17512, 1046>>, <<"2306008", 20067, 44063>>,
      <<"2306009", 14253, 29657>>, <<"2306010", 8579, 34207>>, <<"2306011", 35235, 16565>>,
      <<"2306012", 61378, 27497>>, <<"2306013", 32145, 7073>>, <<"2306014", 22434, 60773>>,
      <<"2306015", 8749, 20076>>, <<"2306016", 13800, 63256>>, <<"2306017", 55213, 17930>>,
      <<"2306018", 40678, 5631>>, <<"2306019", 29244, 33778>>, <<"2306020", 5791, 64608>>,
      <<"2306021", 51385, 61377>>, <<"2306022", 48655, 32982>>, <<"2306023", 13872, 36333>>,
      <<"2306024", 40219, 49850>>, <<"2306025", 56057, 42700>>, <<"2306026", 18448, 62875>>,
      <<"2306027", 22428, 63933>>, <<"2306028", 23399, 32452>>, <<"2306029", 11286, 43362>>,
      <<"2306030", 46185, 47934>>, <<"2023-07-seed", 45441, 37479>>, <<"2307001", 64538, 762>>,
      <<"2307002", 29529, 51434>>, <<"2307003", 31383, 5293>>, <<"2307004", 47986, 39596>>,
      <<"2307005", 55935, 34622>>, <<"2307006", 30685, 18234>>, <<"2307007", 59444, 51665>>,
      <<"2307008", 34766, 45569>>, <<"2307009", 55411, 31922>>, <<"2307010", 33582, 39881>>,
      <<"2307011", 5691, 318>>, <<"2307012", 35625, 48072>>, <<"2307013", 6014, 23120>>,
      <<"2307014", 55751, 13984>>, <<"2307015", 38788, 61930>>, <<"2307016", 11341, 48839>>,
      <<"2307017", 42731, 2611>>, <<"2307018", 63742, 16717>>, <<"2307019", 63163, 4090>>,
      <<"2307020", 28610, 54277>>, <<"2307021", 12981, 51875>>, <<"2307022", 33162, 12804>>,
      <<"2307023", 33265, 48199>>, <<"2307024", 3807, 15811>>, <<"2307025", 61929, 14929>>,
      <<"2307026", 52047, 35680>>, <<"2307027", 38835, 18310>>, <<"2307028", 29516, 3829>>,
      <<"2307029", 5590, 6394>>, <<"2307030", 37785, 44669>>, <<"2023-08-seed", 9349, 22302>>,
      <<"2308001", 5401, 52180>>, <<"2308002", 36304, 45101>>, <<"2308003", 59219, 16146>>,
      <<"2308004", 17670, 46763>>, <<"2308005", 23520, 20078>>, <<"2308006", 58733, 11200>>,
      <<"2308007", 58201, 63582>>, <<"2308008", 42975, 51491>>, <<"2308009", 50115, 56873>>,
      <<"2308010", 17836, 25166>>, <<"2308011", 58510, 63456>>, <<"2308012", 19907, 906>>,
      <<"2308013", 4881, 48843>>, <<"2308014", 4172, 45978>>, <<"2308015", 12094, 10141>>,
      <<"2308016", 26743, 11688>>, <<"2308017", 14250, 59823>>, <<"2308018", 16611, 25828>>,
      <<"2308019", 7137, 54354>>, <<"2308020", 50007, 30983>>, <<"2308021", 57773, 9059>>,
      <<"2308022", 40173, 63132>>, <<"2308023", 62242, 37689>>, <<"2308024", 13994, 33059>>,
      <<"2308025", 19530, 1168>>, <<"2308026", 18975, 10293>>, <<"2308027", 37493, 61526>>,
      <<"2308028", 28115, 58976>>, <<"2308029", 51700, 30356>>, <<"2308030", 13541, 13094>>,
      <<"2023-09-seed", 2263, 53682>>, <<"2309001", 59267, 53157>>, <<"2309002", 10716, 25507>>,
      <<"2309003", 36722, 31494>>, <<"2309004", 64811, 18955>>, <<"2309005", 31411, 37148>>,
      <<"2309006", 15871, 42947>>, <<"2309007", 38392, 49389>>, <<"2309008", 57060, 13932>>,
      <<"2309009", 11678, 11215>>, <<"2309010", 5708, 32281>>, <<"2309011", 129, 16217>>,
      <<"2309012", 20756, 20126>>, <<"2309013", 56864, 62881>>, <<"2309014", 12283, 28875>>,
      <<"2309015", 12947, 42032>>, <<"2309016", 46063, 49718>>, <<"2309017", 12850, 278>>,
      <<"2309018", 49206, 56053>>, <<"2309019", 47903, 43354>>, <<"2309020", 50509, 48865>>,
      <<"2309021", 49235, 22595>>, <<"2309022", 5627, 37692>>, <<"2309023", 49830, 7074>>,
      <<"2309024", 55074, 43772>>, <<"2309025", 10652, 13105>>, <<"2309026", 7521, 61517>>,
      <<"2309027", 38130, 37054>>, <<"2309028", 52020, 292>>, <<"2309029", 21897, 28868>>,
      <<"2309030", 57723, 56563>>, <<"2023-12-seed", 23851, 23985>>, <<"2312001", 35743, 55835>>,
      <<"2312002", 51573, 12664>>, <<"2312003", 10787, 6016>>, <<"2312004", 12547, 54544>>,
      <<"2312005", 62593, 52820>>, <<"2312006", 51745, 20034>>, <<"2312007", 34867, 13055>>,
      <<"2312008", 31905, 5875>>, <<"2312009", 47194, 32357>>, <<"2312010", 59130, 59865>>,
      <<"2312011", 1866, 17684>>, <<"2312012", 46878, 39671>>, <<"2312013", 60189, 7828>>,
      <<"2312014", 23023, 42545>>, <<"2312015", 13236, 61094>>, <<"2312016", 61816, 47389>>,
      <<"2312017", 38266, 55429>>, <<"2312018", 56987, 21769>>, <<"2312019", 33254, 29416>>,
      <<"2312020", 2681, 53185>>, <<"2312021", 32891, 50788>>, <<"2312022", 42945, 1960>>,
      <<"2312023", 52399, 36581>>, <<"2312024", 26713, 5003>>, <<"2312025", 50932, 63392>>,
      <<"2312026", 52979, 10813>>, <<"2312027", 22115, 17139>>, <<"2312028", 13051, 28965>>,
      <<"2312029", 29289, 56925>>, <<"2312030", 28325, 50061>>, <<"X", 530, 39864>>,
      <<"1", 50378, 16952>>, <<"2", 51230, 29325>>, <<"3", 60619, 51326>>,
      <<"4", 43135, 63097>>, <<"5", 58586, 15231>>, <<"burglary", 54825, 3946>>,
      <<"robbery", 50558, 8256>>, <<"theft", 59696, 24366>>, <<"p1", 60526, 62000>>,
      <<"p2", 7526, 23451>>
    >>

MD5Table ==
    [s \in {MD5Rows[i][1] : i \in DOMAIN MD5Rows} |->
        LET i == CHOOSE j \in DOMAIN MD5Rows : MD5Rows[j][1] = s
        IN  <<MD5Rows[i][2], MD5Rows[i][3]>>] @@ <<>>

(* Python's str() of an integer id *)
Str(n) == ToString(n)

(* int(digest[:8], 16) % days, computed without leaving 32 bits *)
DigestMod(seed, days) ==
    LET h == MD5Table[seed]
    IN  (((h[1] % days) * 65536) + h[2]) % days

(* variant: the remainder itself, without the + 1 *)
DayOfMonthFromZero(seed, days_in_month) == DigestMod(seed, days_in_month)

DayOfMonth(seed, days_in_month) == DigestMod(seed, days_in_month) + 1

(***************************************************************************)
(* derive_crime_date(month_str, seed_value).  seed_value is NULL or       *)
(* <<string>>; the empty string is falsy like None.                        *)
(***************************************************************************)
derive_crime_date(month_str, seed_value) ==
    IF IsNull(month_str) \/ Val(month_str) = "" THEN NULL
    ELSE LET ym == ParseMonth(Val(month_str))
         IN  IF ym = <<>> THEN NULL
             ELSE LET days_in_month == DaysInMonth(ym[1], ym[2])
                      seed == IF IsNull(seed_value) \/ Val(seed_value) = ""
                              THEN Val(month_str) \o "-seed"
                              ELSE Val(seed_value)
                      day == DayOfMonth(seed, days_in_month)
                  IN  Some(<<ym[1], ym[2], day>>)

(***************************************************************************)
(* The store.  db is the record of the six tables:                         *)
(*   CrimeData, LocationData, WeatherData, TransitStops: sequences of rows  *)
(*     (the AUTOINCREMENT key of a row is its index);                       *)
(*   StreetData: function street_id -> street_name;                         *)
(*   api_cursors: function api_name -> last_fetched.                        *)
(* The outcome_category / outcome_date columns of CrimeData and the         *)
(* common_name column of TransitStops are written once like category and    *)
(* read by nothing modelled here; they are left out of the rows.            *)
(***************************************************************************)
EmptyDB ==
    [CrimeData |-> <<>>, LocationData |-> <<>>, StreetData |-> <<>>,
     WeatherData |-> <<>>, TransitStops |-> <<>>, api_cursors |-> <<>>]

(* s.strip() on the street names of the model: " " is the blank name *)
Strip(s) == IF s = " " THEN "" ELSE s

(* TRIM(COALESCE(street_name, '')) != '' *)
NonBlank(street_name) == ~IsNull(street_name) /\ Strip(Val(street_name)) # ""

(* TLC evaluates an operator's argument when it is first used; Now(x) uses
   x, so that a loop's accumulator is computed at each iteration and not as
   one nested expression at the end.  It is TRUE for every x. *)
Now(x) == <<x>> # <<>>

(* the left fold of Op over s[lo..hi]: Op(... Op(Op(acc, s[lo]), s[lo+1])
   ..., s[hi]), computed by halves to keep the evaluation shallow *)
RECURSIVE FoldRange(_, _, _, _, _)
FoldRange(Op(_, _), acc, s, lo, hi) ==
    IF lo > hi THEN acc
    ELSE IF lo = hi THEN Op(acc, s[lo])
    ELSE LET mid == (lo + hi) \div 2
             left == FoldRange(Op, acc, s, lo, mid)
         IN  IF Now(left) THEN FoldRange(Op, left, s, mid + 1, hi) ELSE left

(* a for loop over the sequence s, with state acc and body Op *)
Fold(Op(_, _), acc, s) == FoldRange(Op, acc, s, 1, Len(s))

(* the indices lo..hi of s, ascending, whose element satisfies P *)
RECURSIVE SelectIdxRange(_, _, _, _)
SelectIdxRange(P(_), s, lo, hi) ==
    IF lo > hi THEN <<>>
    ELSE IF lo = hi THEN (IF P(s[lo]) THEN <<lo>> ELSE <<>>)
    ELSE LET mid == (lo + hi) \div 2
         IN  SelectIdxRange(P, s, lo, mid) \o SelectIdxRange(P, s, mid + 1, hi)

(* the indices of s, ascending, whose element satisfies P: the keys a
   SELECT ... WHERE P returns, in rowid order *)
SelectIdx(P(_), s) == SelectIdxRange(P, s, 1, Len(s))

(* upsert_street: INSERT ... ON CONFLICT(street_id) DO UPDATE
   SET street_name = COALESCE(excluded.street_name, street_name) *)
upsert_street(db, street_id, street_name) ==
    IF IsNull(street_id) THEN db
    ELSE LET normalized_name ==
                 IF NonBlank(street_name) THEN Some(Strip(Val(street_name)))
                 ELSE NULL
             k == Val(street_id)
         IN  IF k \in DOMAIN db.StreetData
             THEN IF IsNull(normalized_name) THEN db
                  ELSE [db EXCEPT !.StreetData[k] = normalized_name]
             ELSE [db EXCEPT !.StreetData = @ @@ (k :> normalized_name)]

(* Python truthiness of a nullable id (None and 0 are falsy) and of a
   nullable string (None and "" are falsy) *)
TruthyInt(x) == ~IsNull(x) /\ Val(x) # 0

TruthyStr(x) == ~IsNull(x) /\ Val(x) # ""

(* str(crime_id or persistent_id or street_id or category), NULL when all
   four are falsy *)
SeedValue(crime_id, persistent_id, street_id, category) ==
    IF TruthyInt(crime_id) THEN Some(Str(Val(crime_id)))
    ELSE IF TruthyStr(persistent_id) THEN persistent_id
    ELSE IF TruthyInt(street_id) THEN Some(Str(Val(street_id)))
    ELSE IF TruthyStr(category) THEN category
    ELSE NULL

(* variant: no UNIQUE constraint on crime_id *)
CrimeConflictNever(CrimeData, crime_id) == FALSE

(* UNIQUE(crime_id): a NULL crime_id conflicts with no row *)
CrimeConflict(CrimeData, crime_id) ==
    /\ ~IsNull(crime_id)
    /\ \E i \in DOMAIN CrimeData : CrimeData[i].crime_id = crime_id

(* insert_crime: upsert_street, derive_crime_date, INSERT OR IGNORE *)
insert_crime(db, crime) ==
    LET d1 == upsert_street(db, crime.street_id, crime.street_name)
        crime_date == derive_crime_date(
                          crime.month,
                          SeedValue(crime.crime_id, crime.persistent_id,
                                    crime.street_id, crime.category))
        row == [crime_id |-> crime.crime_id,
                persistent_id |-> crime.persistent_id,
                month |-> crime.month,
                category |-> crime.category,
                latitude |-> crime.latitude,
                longitude |-> crime.longitude,
                street_id |-> crime.street_id,
                street_name |-> crime.street_name,
                crime_date |-> crime_date,
                location_id |-> crime.location_id]
    IN  IF CrimeConflict(d1.CrimeData, crime.crime_id) THEN d1
        ELSE [d1 EXCEPT !.CrimeData = Append(@, row)]

(* variant: no UNIQUE constraint on label *)
LabelConflictNever(LocationData, label) == FALSE

(* UNIQUE(label): a NULL label conflicts with no row *)
LabelConflict(LocationData, label) ==
    /\ ~IsNull(label)
    /\ \E i \in DOMAIN LocationData : LocationData[i].label = label

LocationRow(city, county, region, lat, lon, label) ==
    [city |-> city, county |-> county, region |-> region,
     lat |-> lat, lon |-> lon, label |-> label]

(* INSERT OR IGNORE INTO LocationData *)
InsertOrIgnoreLocation(db, row) ==
    IF LabelConflict(db.LocationData, row.label) THEN db
    ELSE [db EXCEPT !.LocationData = Append(@, row)]

(* SELECT location_id FROM LocationData WHERE label = ?  (fetchone) *)
LocationIdByLabel(LocationData, label) ==
    IF IsNull(label) THEN NULL
    ELSE LET hits == {i \in DOMAIN LocationData : LocationData[i].label = label}
         IN  IF hits = {} THEN NULL
             ELSE Some(CHOOSE i \in hits : \A j \in hits : i <= j)

(* insert_location: the store after the call, and the id it returns *)
insert_location(db, city, county, region, lat, lon, label) ==
    LET d1 == InsertOrIgnoreLocation(
                  db, LocationRow(city, county, region, lat, lon, label))
    IN  [db |-> d1, id |-> LocationIdByLabel(d1.LocationData, label)]

(* variant: no UNIQUE constraint on (location_id, date) *)
WeatherConflictNever(WeatherData, location_id, date) == FALSE

(* UNIQUE(location_id, date); SQLite treats NULLs as distinct *)
WeatherConflict(WeatherData, location_id, date) ==
    /\ ~IsNull(location_id)
    /\ ~IsNull(date)
    /\ \E i \in DOMAIN WeatherData :
           /\ WeatherData[i].location_id = location_id
           /\ WeatherData[i].date = date

(* variant: the row of a conflicting insert takes the new values *)
insert_weather_overwriting(db, weather) ==
    IF WeatherConflict(db.WeatherData, weather.location_id, weather.date)
    THEN LET i == CHOOSE j \in DOMAIN db.WeatherData :
                      /\ db.WeatherData[j].location_id = weather.location_id
                      /\ db.WeatherData[j].date = weather.date
         IN  [db EXCEPT !.WeatherData[i] = weather]
    ELSE [db EXCEPT !.WeatherData = Append(@, weather)]

(* insert_weather: INSERT OR IGNORE INTO WeatherData *)
insert_weather(db, weather) ==
    IF WeatherConflict(db.WeatherData, weather.location_id, weather.date)
    THEN db
    ELSE [db EXCEPT !.WeatherData = Append(@, weather)]

(* UNIQUE(naptan_id) *)
StopConflict(TransitStops, naptan_id) ==
    /\ ~IsNull(naptan_id)
    /\ \E i \in DOMAIN TransitStops : TransitStops[i].naptan_id = naptan_id

(* insert_transit_stop: INSERT OR IGNORE INTO TransitStops *)
insert_transit_stop(db, stop) ==
    IF StopConflict(db.TransitStops, stop.naptan_id) THEN db
    ELSE [db EXCEPT !.TransitStops = Append(@, stop)]

(* get_unlinked_crimes: the keys of the first `limit` crimes, in rowid
   order, with no location and with coordinates *)
get_unlinked_crimes(db, limit) ==
    LET Unlinked(c) == /\ IsNull(c.location_id)
                       /\ ~IsNull(c.latitude)
                       /\ ~IsNull(c.longitude)
    IN  Take(SelectIdx(Unlinked, db.CrimeData), limit)

(* variant: the UPDATE also clears the coordinates of the row *)
link_crime_to_location_clearing(db, crime_pk, location_id) ==
    IF crime_pk \in DOMAIN db.CrimeData
    THEN [db EXCEPT !.CrimeData[crime_pk] =
             [@ EXCEPT !.location_id = location_id,
                       !.latitude = NULL, !.longitude = NULL]]
    ELSE db

(* link_crime_to_location: UPDATE CrimeData SET location_id = ? WHERE id = ? *)
link_crime_to_location(db, crime_pk, location_id) ==
    IF crime_pk \in DOMAIN db.CrimeData
    THEN [db EXCEPT !.CrimeData[crime_pk].location_id = location_id]
    ELSE db

(* the label release_default_location_links looks up (db_utils.py) *)
ReleaseLabel == "DEFAULT_LONDON"

(* the label assign_default_location inserts and selects (fetch_geocode.py) *)
AssignLabel == "Default London"

(* the label _read_counts leaves out of the LocationData count *)
UncountedLabel == "DEFAULT_LONDON"

(* variant: the links of the first `limit` linked crimes are reset, whatever
   location they are on *)
release_any_location_links(db, limit) ==
    LET Linked(c) == ~IsNull(c.location_id)
        ids == Take(SelectIdx(Linked, db.CrimeData), limit)
        Reset(d, crime_pk) ==
            [d EXCEPT !.CrimeData[crime_pk].location_id = NULL]
    IN  [db |-> Fold(Reset, db, ids), released |-> Len(ids)]

(* release_default_location_links: the store after the call and the number
   it returns *)
release_default_location_links(db, limit) ==
    LET row == LocationIdByLabel(db.LocationData, Some(ReleaseLabel))
    IN  IF IsNull(row) THEN [db |-> db, released |-> 0]
        ELSE LET OnDefault(c) == c.location_id = row
                 ids == Take(SelectIdx(OnDefault, db.CrimeData), limit)
                 Reset(d, crime_pk) ==
                     [d EXCEPT !.CrimeData[crime_pk].location_id = NULL]
             IN  [db |-> Fold(Reset, db, ids), released |-> Len(ids)]

(* variant: the default location is created but no crime is updated *)
assign_default_location_only(db) ==
    InsertOrIgnoreLocation(
        db, LocationRow(Some("London"), Some("Greater London"),
                        Some("London"), Some(51510), Some(-118),
                        Some(AssignLabel)))

(* assign_default_location: get-or-create the default location, then
   UPDATE CrimeData SET location_id = default WHERE location_id IS NULL *)
assign_default_location(db) ==
    LET d1 == InsertOrIgnoreLocation(
                  db, LocationRow(Some("London"), Some("Greater London"),
                                  Some("London"), Some(51510), Some(-118),
                                  Some(AssignLabel)))
        default_loc == LocationIdByLabel(d1.LocationData, Some(AssignLabel))
    IN  [d1 EXCEPT !.CrimeData =
            Tuple([i \in DOMAIN @ |->
                IF IsNull(@[i].location_id)
                THEN [@[i] EXCEPT !.location_id = default_loc]
                ELSE @[i]])]

(* get_all_locations(conn): the ids of the locations with coordinates *)
get_all_locations(db) ==
    LET HasCoords(l) == ~IsNull(l.lat) /\ ~IsNull(l.lon)
    IN  SelectIdx(HasCoords, db.LocationData)

(* variant: no WHERE clause; a row that holds a date is moved to the day
   after it, within its month *)
populate_every_crime_date(db) ==
    LET Missing(c) == IsNull(c.crime_date) \/ c.crime_date = Some(<<>>)
        Moved(date) ==
            <<date[1], date[2], (date[3] % DaysInMonth(date[1], date[2])) + 1>>
    IN  [db EXCEPT !.CrimeData =
            Tuple([pk \in DOMAIN @ |->
                IF Missing(@[pk]) THEN @[pk]
                ELSE [@[pk] EXCEPT !.crime_date = Some(Moved(Val(@)))]])]

(* populate_missing_crime_dates: crime_date of the rows where it is NULL
   or '' becomes derive_crime_date(month, crime_id or persistent_id or
   street_id or category or pk) *)
populate_missing_crime_dates(db) ==
    LET Missing(c) == IsNull(c.crime_date) \/ c.crime_date = Some(<<>>)
        Backfill(pk) ==
            LET c == db.CrimeData[pk]
                sv == SeedValue(c.crime_id, c.persistent_id, c.street_id,
                                c.category)
            IN  derive_crime_date(
                    c.month, IF IsNull(sv) THEN Some(Str(pk)) ELSE sv)
    IN  [db EXCEPT !.CrimeData =
            Tuple([pk \in DOMAIN @ |->
                IF Missing(@[pk]) THEN [@[pk] EXCEPT !.crime_date = Backfill(pk)]
                ELSE @[pk]])]

(* migrate_street_data: INSERT OR IGNORE INTO StreetData the (street_id,
   street_name) of the crimes with a street_id and a non-blank name, in
   row order, then set every non-blank street_name of CrimeData to NULL *)
migrate_street_data(db) ==
    LET Legacy(c) == ~IsNull(c.street_id) /\ NonBlank(c.street_name)
        legacy == {pk \in DOMAIN db.CrimeData : Legacy(db.CrimeData[pk])}
        new == {Val(db.CrimeData[pk].street_id) : pk \in legacy}
                   \ DOMAIN db.StreetData
        First(k) == CHOOSE pk \in legacy :
                        /\ Val(db.CrimeData[pk].street_id) = k
                        /\ \A q \in legacy :
                               Val(db.CrimeData[q].street_id) = k => pk <= q
    IN  [db EXCEPT
            !.StreetData =
                @ @@ [k \in new |-> db.CrimeData[First(k)].street_name],
            !.CrimeData =
                Tuple([pk \in DOMAIN @ |->
                    IF NonBlank(@[pk].street_name)
                    THEN [@[pk] EXCEPT !.street_name = NULL]
                    ELSE @[pk]])]

(* set_up_database on an existing store: the CREATE ... IF NOT EXISTS
   statements change nothing; then the two startup passes *)
set_up_database(db) == migrate_street_data(populate_missing_crime_dates(db))

(* get_api_cursor *)
get_api_cursor(db, api_name, default) ==
    IF api_name \in DOMAIN db.api_cursors THEN db.api_cursors[api_name]
    ELSE default

(* variant: INSERT OR IGNORE; the row of a name keeps its first value *)
set_api_cursor_keeping(db, api_name, value) ==
    IF api_name \in DOMAIN db.api_cursors THEN db
    ELSE [db EXCEPT !.api_cursors = @ @@ (api_name :> value)]

(* set_api_cursor: INSERT ... ON CONFLICT(api_name) DO UPDATE *)
set_api_cursor(db, api_name, value) ==
    IF api_name \in DOMAIN db.api_cursors
    THEN [db EXCEPT !.api_cursors[api_name] = value]
    ELSE [db EXCEPT !.api_cursors = @ @@ (api_name :> value)]

(* get_transit_stop_count *)
get_transit_stop_count(db) == Len(db.TransitStops)

(***************************************************************************)
(* Crime adapter (fetch_crime.py).                                         *)
(***************************************************************************)
(* variant: a missing latitude or longitude becomes 0 *)
normalize_crime_zero_coordinates(raw) ==
    LET hasLoc == ~IsNull(raw.location)
        loc == Val(raw.location)
        hasStreet == hasLoc /\ ~IsNull(loc.street)
        street == Val(loc.street)
    IN  [crime_id |-> raw.id,
         persistent_id |-> raw.persistent_id,
         month |-> raw.month,
         category |-> IF IsNull(raw.category) THEN Some("") ELSE raw.category,
         latitude |-> IF hasLoc /\ ~IsNull(loc.latitude) THEN loc.latitude
                      ELSE Some(0),
         longitude |-> IF hasLoc /\ ~IsNull(loc.longitude) THEN loc.longitude
                       ELSE Some(0),
         street_id |-> IF hasStreet THEN street.id ELSE NULL,
         street_name |-> IF hasStreet /\ ~IsNull(street.name) THEN street.name
                         ELSE Some(""),
         location_id |-> NULL]

(* normalize_crime(raw).  A raw item is [id, persistent_id, month,
   category, location]; location is NULL or <<[latitude, longitude,
   street]>>, street is NULL or <<[id, name]>>. *)
normalize_crime(raw) ==
    LET hasLoc == ~IsNull(raw.location)
        loc == Val(raw.location)
        hasStreet == hasLoc /\ ~IsNull(loc.street)
        street == Val(loc.street)
    IN  [crime_id |-> raw.id,
         persistent_id |-> raw.persistent_id,
         month |-> raw.month,
         category |-> IF IsNull(raw.category) THEN Some("") ELSE raw.category,
         latitude |-> IF hasLoc THEN loc.latitude ELSE NULL,
         longitude |-> IF hasLoc THEN loc.longitude ELSE NULL,
         street_id |-> IF hasStreet THEN street.id ELSE NULL,
         street_name |-> IF hasStreet /\ ~IsNull(street.name) THEN street.name
                         ELSE Some(""),
         location_id |-> NULL]

(* fetch_and_store_crimes, given the list `crimes` fetch_crimes_poly
   returned *)
fetch_and_store_crimes(db, crimes, max_items) ==
    IF crimes = <<>> THEN db
    ELSE LET StoreRow(d, row) == insert_crime(d, normalize_crime(row))
         IN  Fold(StoreRow, db, Take(crimes, max_items))

(***************************************************************************)
(* Geocode adapter (fetch_geocode.py).  `geocoder` names the behaviour of  *)
(* the upstream service; reverse_geocode answers [raised, geo]: raised     *)
(* when the request raises, geo NULL when the response holds no address,   *)
(* else geo = <<location>>.                                                *)
(***************************************************************************)
GeocodedRow(lat, lon) ==
    LocationRow(Some("London"), Some("Greater London"), Some("ENG"), lat, lon,
                Some("addr " \o Str(Val(lat)) \o "," \o Str(Val(lon))))

reverse_geocode(geocoder, lat, lon) ==
    CASE geocoder = "distinct" ->
             [raised |-> FALSE, geo |-> Some(GeocodedRow(lat, lon))]
      [] geocoder = "same" ->
             [raised |-> FALSE,
              geo |-> Some(LocationRow(Some("London"), NULL, Some("ENG"),
                                       lat, lon, Some("London")))]
      [] geocoder = "nolabel" ->
             [raised |-> FALSE,
              geo |-> Some(LocationRow(Some("London"), NULL, NULL,
                                       lat, lon, NULL))]
      [] geocoder = "none" -> [raised |-> FALSE, geo |-> NULL]
      [] geocoder = "flaky" ->
             IF Val(lat) % 4 = 3 THEN [raised |-> TRUE, geo |-> NULL]
             ELSE [raised |-> FALSE, geo |-> Some(GeocodedRow(lat, lon))]

(* the body of the loop of geocode_and_attach_locations; nothing more
   happens once a request has raised *)
GeocodeOne(geocoder, acc, crime_pk) ==
    IF acc.raised THEN acc
    ELSE LET c == acc.db.CrimeData[crime_pk]
             resp == reverse_geocode(geocoder, c.latitude, c.longitude)
         IN  IF resp.raised THEN [db |-> acc.db, raised |-> TRUE]
             ELSE IF IsNull(resp.geo) THEN acc
             ELSE LET g == Val(resp.geo)
                      r == insert_location(acc.db, g.city, g.county, g.region,
                                           g.lat, g.lon, g.label)
                  IN  [db |-> link_crime_to_location(r.db, crime_pk, r.id),
                       raised |-> FALSE]

(* geocode_and_attach_locations: the store after the call, and whether the
   call raised (then assign_default_location was not reached) *)
geocode_and_attach_locations(db, max_items, geocoder) ==
    LET crimes == get_unlinked_crimes(db, max_items)
        Body(acc, crime_pk) == GeocodeOne(geocoder, acc, crime_pk)
        r == Fold(Body, [db |-> db, raised |-> FALSE], crimes)
    IN  IF r.raised THEN r
        ELSE [db |-> assign_default_location(r.db), raised |-> FALSE]

(***************************************************************************)
(* Transit adapter (fetch_transit.py).                                     *)
(***************************************************************************)
(* _normalize_stop(raw): NULL for an empty item *)
normalize_stop(raw) ==
    IF IsNull(raw) THEN NULL
    ELSE Some([naptan_id |-> Val(raw).naptanId,
               stop_type |-> Val(raw).stopType,
               modes |-> Val(raw).modes,
               lat |-> Val(raw).lat,
               lon |-> Val(raw).lon])

(* the body of the loop of fetch_transit_stops; after the break nothing
   more happens *)
TransitOne(max_items, acc, raw) ==
    IF acc.inserted >= max_items THEN acc
    ELSE LET stop == normalize_stop(raw)
         IN  IF ~IsNull(stop) /\ TruthyStr(Val(stop).naptan_id)
             THEN [db |-> insert_transit_stop(acc.db, Val(stop)),
                   inserted |-> acc.inserted + 1]
             ELSE acc

(* fetch_transit_stops: response is [error, malformed, stopPoints]; error
   when the request raises a RequestException, malformed when resp.json()
   raises, which nothing catches.  The answer is the store after the call,
   the number returned, and whether the call raised. *)
fetch_transit_stops(db, max_items, response) ==
    IF response.error THEN [db |-> db, inserted |-> 0, raised |-> FALSE]
    ELSE IF response.malformed
    THEN [db |-> db, inserted |-> 0, raised |-> TRUE]
    ELSE LET Body(acc, raw) == TransitOne(max_items, acc, raw)
             r == Fold(Body, [db |-> db, inserted |-> 0],
                       response.stopPoints)
         IN  [db |-> r.db, inserted |-> r.inserted, raised |-> FALSE]

(***************************************************************************)
(* Weather adapter (fetch_weather.py).  Temperatures are in tenths of a    *)
(* degree, precipitation and wind in hundredths of a millimetre and of a   *)
(* metre per second.  The service may answer null for a value.             *)
(***************************************************************************)
WEATHER_CODE_MAP ==
    0 :> "Clear" @@ 1 :> "Mainly Clear" @@ 2 :> "Partly Cloudy" @@
    3 :> "Overcast" @@ 45 :> "Fog" @@ 48 :> "Fog" @@
    51 :> "Light Drizzle" @@ 53 :> "Drizzle" @@ 55 :> "Heavy Drizzle" @@
    56 :> "Freezing Drizzle" @@ 57 :> "Freezing Drizzle" @@
    61 :> "Light Rain" @@ 63 :> "Rain" @@ 65 :> "Heavy Rain" @@
    66 :> "Freezing Rain" @@ 67 :> "Freezing Rain" @@
    71 :> "Light Snow" @@ 73 :> "Snow" @@ 75 :> "Heavy Snow" @@
    77 :> "Snow Grains" @@ 80 :> "Rain Showers" @@ 81 :> "Rain Showers" @@
    82 :> "Heavy Rain Showers" @@ 85 :> "Snow Showers" @@
    86 :> "Heavy Snow Showers" @@ 95 :> "Thunderstorm" @@
    96 :> "Thunderstorm" @@ 99 :> "Thunderstorm"

(* variant: no default; a code with no entry gives the empty category *)
derive_weather_main_blank(code) ==
    IF ~IsNull(code) /\ Val(code) \in DOMAIN WEATHER_CODE_MAP
    THEN WEATHER_CODE_MAP[Val(code)]
    ELSE ""

(* _derive_weather_main(code) *)
derive_weather_main(code) ==
    IF IsNull(code) THEN "Unknown"
    ELSE IF Val(code) \in DOMAIN WEATHER_CODE_MAP
         THEN WEATHER_CODE_MAP[Val(code)]
         ELSE "Unknown"

(* the record fetch_weather builds from the "daily" object of a response:
   daily is [temperature_2m_max, temperature_2m_min, windspeed_10m_max,
   precipitation_sum, weathercode], each NULL or <<first value>> *)
WeatherOf(daily, date) ==
    LET temp_max == daily.temperature_2m_max
        temp_min == daily.temperature_2m_min
        temp_c == IF ~IsNull(temp_max) /\ ~IsNull(temp_min)
                  THEN Some((Val(temp_max) + Val(temp_min)) \div 2)
                  ELSE IF ~IsNull(temp_max) THEN temp_max ELSE temp_min
    IN  [date |-> Some(date),
         temp_c |-> temp_c,
         temp_min_c |-> temp_min,
         temp_max_c |-> temp_max,
         wind_speed |-> daily.windspeed_10m_max,
         precip_mm |-> daily.precipitation_sum,
         humidity |-> NULL,
         weather_main |-> Some(derive_weather_main(daily.weathercode))]

(* the answer of the weather service for one (lat, lon, date): NULL when
   fetch_weather returns None (an HTTP error status, or a response with no
   "daily" object), else <<daily>> *)
WeatherService(service, lat, lon, date) ==
    LET day == date[3]
        Daily(shift) ==
            [temperature_2m_max |-> Some(180 + 2 * day + shift),
             temperature_2m_min |-> Some(100 + 2 * day - shift),
             windspeed_10m_max |-> Some(300 + 25 * (day % 8) + shift),
             precipitation_sum |->
                 <<Some(0), Some(50), Some(200), Some(350), Some(10), Some(5),
                   NULL, Some(201)>>[((day + shift) % 8) + 1],
             weathercode |->
                 <<Some(0), Some(61), Some(3), Some(100), NULL>>
                     [((day + shift) % 5) + 1]]
    IN  CASE service = "ok" -> Some(Daily(0))
          [] service = "alt" -> Some(Daily(2))
          [] service = "late" -> IF day <= 25 THEN NULL ELSE Some(Daily(0))
          [] service = "none" -> NULL

(* fetch_weather(lat, lon, date): NULL or <<weather record>> *)
fetch_weather(service, lat, lon, date) ==
    LET resp == WeatherService(service, lat, lon, date)
    IN  IF IsNull(resp) THEN NULL ELSE Some(WeatherOf(Val(resp), date))

DateLess(a, b) ==
    \/ a[1] < b[1]
    \/ a[1] = b[1] /\ a[2] < b[2]
    \/ a[1] = b[1] /\ a[2] = b[2] /\ a[3] < b[3]

(* sorted(set(dates)) *)
SortUnique(dates) ==
    LET Insert(acc, e) ==
            IF acc = <<>> \/ DateLess(acc[Len(acc)], e) THEN Append(acc, e)
            ELSE IF \E i \in DOMAIN acc : acc[i] = e THEN acc
            ELSE LET k == Cardinality({i \in DOMAIN acc : DateLess(acc[i], e)})
                 IN  SubSeq(acc, 1, k) \o <<e>> \o SubSeq(acc, k + 1, Len(acc))
    IN  Fold(Insert, <<>>, dates)

(* the body of the inner loop of fetch_weather_for_all_locations, for one
   location and one date; after the break nothing more happens *)
WeatherOne(service, max_new_records, location_id, acc, date) ==
    IF acc.inserted >= max_new_records THEN acc
    ELSE LET loc == acc.db.LocationData[location_id]
             weather == fetch_weather(service, loc.lat, loc.lon, date)
         IN  IF IsNull(weather) THEN acc
             ELSE [db |-> insert_weather(
                              acc.db,
                              [location_id |-> Some(location_id)]
                                  @@ Val(weather)),
                   inserted |-> acc.inserted + 1]

(* the body of the outer loop: the dates of one location *)
WeatherLocation(service, max_new_records, dates, acc, location_id) ==
    IF acc.inserted >= max_new_records THEN acc
    ELSE LET Body(a, date) ==
                 WeatherOne(service, max_new_records, location_id, a, date)
         IN  Fold(Body, acc, dates)

(* fetch_weather_for_all_locations(conn, dates, max_new_records=...): the
   store after the call and the value of its counter `inserted` *)
fetch_weather_for_all_locations(db, dates, max_new_records, service) ==
    IF dates = <<>> THEN [db |-> db, inserted |-> 0]
    ELSE LET unique_dates == SortUnique(dates)
             locations == get_all_locations(db)
         IN  IF locations = <<>> THEN [db |-> db, inserted |-> 0]
             ELSE LET Body(acc, location_id) ==
                          WeatherLocation(service, max_new_records,
                                          unique_dates, acc, location_id)
                  IN  Fold(Body, [db |-> db, inserted |-> 0], locations)

(***************************************************************************)
(* Synthetic seeding (seed.py).                                            *)
(***************************************************************************)
(* variant: the labels are numbered from 1 at every call *)
SeedLocationOneFromOne(existing, db, idx) ==
    insert_location(
        db, Some("London"), Some("Synthetic Borough"), Some("Greater London"),
        Some(51480 + (idx \div 10) * 4 + (idx % 10) * 2),
        Some(-150 + (idx % 10) * 4 + (idx \div 10) * 2),
        Some("SYNTH_LOC_" \o Str(idx + 1))).db

(* the body of the loop of seed_locations *)
SeedLocationOne(existing, db, idx) ==
    insert_location(
        db, Some("London"), Some("Synthetic Borough"), Some("Greater London"),
        Some(51480 + (idx \div 10) * 4 + (idx % 10) * 2),
        Some(-150 + (idx % 10) * 4 + (idx \div 10) * 2),
        Some("SYNTH_LOC_" \o Str(existing + idx + 1))).db

(* range(n) *)
Range0(n) == Tuple([i \in 1..n |-> i - 1])

(* seed_locations(conn, target_count): the store and the number returned *)
seed_locations(db, target_count) ==
    LET existing == Len(db.LocationData)
        to_add == Max(0, target_count - existing)
    IN  IF to_add <= 0 THEN [db |-> db, added |-> 0]
        ELSE LET Body(d, idx) == SeedLocationOne(existing, d, idx)
             IN  [db |-> Fold(Body, db, Range0(to_add)), added |-> to_add]

SeedModes == <<"tube", "dlr", "bus", "rail", "tram", "river-bus", "cable-car">>

SeedStopTypes ==
    <<"NaptanMetroStation", "NaptanMetroStation", "NaptanBusCoachStation",
      "NaptanRailStation", "NaptanTramStation", "NaptanFerryPort",
      "NaptanAirAccessArea">>

(* f"{n:04d}" for 0 <= n *)
Pad4(n) ==
    IF n < 10 THEN "000" \o Str(n)
    ELSE IF n < 100 THEN "00" \o Str(n)
    ELSE IF n < 1000 THEN "0" \o Str(n) ELSE Str(n)

(* the body of the loop of seed_transit_stops *)
SeedTransitOne(existing, db, idx) ==
    insert_transit_stop(
        db,
        [naptan_id |-> Some("SYNTH_" \o Pad4(existing + idx + 1)),
         stop_type |-> Some(SeedStopTypes[(idx % 7) + 1]),
         modes |-> Some(<<SeedModes[(idx % 7) + 1]>>),
         lat |-> Some(51490 + (idx % 15)),
         lon |-> Some(-120 + (idx \div 15) * 2)])

(* seed_transit_stops(conn, target_count) *)
seed_transit_stops(db, target_count) ==
    LET existing == Len(db.TransitStops)
        to_add == Max(0, target_count - existing)
    IN  IF to_add <= 0 THEN [db |-> db, added |-> 0]
        ELSE LET Body(d, idx) == SeedTransitOne(existing, d, idx)
             IN  [db |-> Fold(Body, db, Range0(to_add)), added |-> to_add]

(***************************************************************************)
(* The upstream services.  `world` fixes what each service answers:        *)
(*   crime: the list the incident feed returns for a month;                *)
(*   geocoder, weather: see reverse_geocode, WeatherService;               *)
(*   transit: the stop directory's answer for a configuration.             *)
(***************************************************************************)
Categories == <<"burglary", "robbery", "theft">>

(* the i-th incident of a month in the feed *)
RawCrime(month_str, i) ==
    LET ym == ParseMonth(month_str)
    IN  [id |-> Some((ym[1] % 100) * 100000 + ym[2] * 1000 + i),
         persistent_id |-> Some(""),
         month |-> Some(month_str),
         category |-> Some(Categories[(i % 3) + 1]),
         location |->
             Some([latitude |-> Some(51000 + 100 * ym[2] + i),
                   longitude |-> Some(-155 + (i % 10)),
                   street |-> Some([id |-> Some((i % 4) + 1),
                                   name |-> Some("On or near S"
                                                 \o Str((i % 4) + 1))])])]

(* the number of incidents the full feed holds for a month *)
FeedSize == 120

CrimeFeed(feed, month_str) ==
    LET A == RawCrime(month_str, 1)
        B == RawCrime(month_str, 2)
        NoLocation == [RawCrime(month_str, 3) EXCEPT !.location = NULL]
        NoStreet == [RawCrime(month_str, 4) EXCEPT
                        !.location = Some([Val(@) EXCEPT !.street = NULL])]
        NoId == [RawCrime(month_str, 5) EXCEPT
                    !.id = NULL, !.persistent_id = Some("p1")]
        Bare == [id |-> NULL, persistent_id |-> NULL,
                 month |-> Some(month_str), category |-> NULL,
                 location |-> NULL]
        NoLatitude == [RawCrime(month_str, 6) EXCEPT
                          !.location = Some([Val(@) EXCEPT !.latitude = NULL])]
        NoLongitude == [RawCrime(month_str, 7) EXCEPT
                           !.location = Some([Val(@) EXCEPT !.longitude = NULL])]
    IN  CASE feed = "full" ->
             Tuple([i \in 1..FeedSize |-> RawCrime(month_str, i)])
          [] feed = "aba" -> <<A, B, A>>
          [] feed = "partial" ->
                 <<A, NoLocation, NoStreet, NoId, Bare, NoLatitude, NoLongitude>>
          [] feed = "empty" -> <<>>

(* stop_type_cycle of main *)
stop_type_cycle ==
    <<[stop_types |-> Some("NaptanMetroStation"), coords |-> <<51515, -130>>,
       modes |-> <<"tube", "dlr", "overground">>],
      [stop_types |-> Some("NaptanRailStation"), coords |-> <<51503, -112>>,
       modes |-> <<"overground">>],
      [stop_types |-> Some("NaptanBusCoachStation"), coords |-> <<51510, -90>>,
       modes |-> <<"bus", "coach">>],
      [stop_types |-> Some("NaptanTramStation"), coords |-> <<51374, -100>>,
       modes |-> <<"tram">>],
      [stop_types |-> NULL, coords |-> <<51509, -17>>, modes |-> <<"dlr">>],
      [stop_types |-> NULL, coords |-> <<51500, 3>>,
       modes |-> <<"cable-car">>],
      [stop_types |-> NULL, coords |-> <<51507, -20>>,
       modes |-> <<"river-bus", "river-tour">>]>>

(* the i-th stop the directory holds around configuration number k *)
RawStop(k, i) ==
    LET config == stop_type_cycle[k + 1]
    IN  Some([naptanId |-> Some("N" \o Str(100 * k + i)),
              stopType |-> IF IsNull(config.stop_types)
                           THEN Some("NaptanPublicBusCoachTram")
                           ELSE config.stop_types,
              modes |-> Some(config.modes),
              lat |-> Some(config.coords[1] + (i % 12)),
              lon |-> Some(config.coords[2] + (i % 7))])

(* the number of stops the directory holds around one configuration *)
StopsPerArea == 30

TransitFeed(feed, k) ==
    CASE feed = "ok" ->
             [error |-> FALSE, malformed |-> FALSE,
              stopPoints |->
                  Tuple([i \in 1..StopsPerArea |-> RawStop(k, i)])]
      [] feed = "partial" ->
             [error |-> FALSE, malformed |-> FALSE,
              stopPoints |->
                  <<NULL,
                    Some([Val(RawStop(k, 1)) EXCEPT !.naptanId = NULL]),
                    RawStop(0, 1), RawStop(0, 2), RawStop(k, 2),
                    RawStop(k, 2), RawStop(k, 3)>>]
      [] feed = "error" ->
             [error |-> TRUE, malformed |-> FALSE, stopPoints |-> <<>>]
      [] feed = "malformed" ->
             [error |-> FALSE, malformed |-> TRUE, stopPoints |-> <<>>]

(***************************************************************************)
(* main (finalproject.py), stage by stage.  A stage maps the run state     *)
(*   st = [db, pc, start_counts, counts, requested, released]              *)
(* to the run state after it: counts holds main's locals crime_count,      *)
(* loc_count, weather_count and transit_count; requested holds, per        *)
(* adapter, the quota main passed to it in this run (NULL: not called);    *)
(* released holds what release_default_location_links returned.            *)
(***************************************************************************)
(* SELECT COUNT FROM LocationData WHERE label != 'DEFAULT_LONDON' *)
CountLocations(db) ==
    Cardinality({i \in DOMAIN db.LocationData :
                    /\ ~IsNull(db.LocationData[i].label)
                    /\ db.LocationData[i].label # Some(UncountedLabel)})

(* _read_counts *)
read_counts(db) ==
    [CrimeData |-> Len(db.CrimeData),
     LocationData |-> CountLocations(db),
     WeatherData |-> Len(db.WeatherData),
     TransitStops |-> Len(db.TransitStops)]

NoRequests ==
    [crime |-> NULL, geocode |-> NULL, transit |-> NULL, weather |-> NULL]

(* variant: the transit adapter comes straight after the schema setup *)
SetupStageThenTransit(st) ==
    LET d == set_up_database(st.db)
        c == read_counts(d)
    IN  [db |-> d, pc |-> "transit", start_counts |-> c, counts |-> c,
         requested |-> NoRequests, released |-> NULL]

(* lines 96-109: set_up_database, _read_counts *)
SetupStage(st) ==
    LET d == set_up_database(st.db)
        c == read_counts(d)
    IN  [db |-> d, pc |-> "crime", start_counts |-> c, counts |-> c,
         requested |-> NoRequests, released |-> NULL]

(* lines 111-123 *)
CrimeStage(st, w) ==
    IF st.counts.CrimeData < MIN_CRIME_ROWS
    THEN LET remaining == MIN_CRIME_ROWS - st.counts.CrimeData
             fetch_limit == Min(MAX_API_ITEMS_PER_RUN, remaining)
             d == fetch_and_store_crimes(
                      st.db, CrimeFeed(w.crime, w.month), fetch_limit)
         IN  [st EXCEPT !.db = d,
                        !.counts.CrimeData = Len(d.CrimeData),
                        !.requested.crime = Some(fetch_limit),
                        !.pc = "release"]
    ELSE [st EXCEPT !.pc = "release"]

(* variant: the whole per-run budget, whatever the gap to the target *)
GeocodePerRunWhole(st) == MAX_API_ITEMS_PER_RUN

(* per_run of lines 127-128 *)
GeocodePerRun(st) ==
    Min(MAX_API_ITEMS_PER_RUN, MIN_LOCATION_ROWS - st.counts.LocationData)

(* variant: the geocoding branch is taken whatever the count *)
ReleaseStageAlways(st) ==
    LET r == release_default_location_links(st.db, MAX_API_ITEMS_PER_RUN)
    IN  [st EXCEPT !.db = r.db, !.released = Some(r.released), !.pc = "geocode"]

(* lines 126-131 *)
ReleaseStage(st) ==
    IF st.counts.LocationData < MIN_LOCATION_ROWS
    THEN LET r == release_default_location_links(st.db, GeocodePerRun(st))
         IN  [st EXCEPT !.db = r.db, !.released = Some(r.released),
                        !.pc = "geocode"]
    ELSE [st EXCEPT !.pc = "default"]

(* lines 132-139; an exception of the geocoding request ends the process *)
GeocodeStage(st, w) ==
    LET per_run == GeocodePerRun(st)
        r == geocode_and_attach_locations(st.db, per_run, w.geocoder)
    IN  IF r.raised
        THEN [st EXCEPT !.db = r.db, !.requested.geocode = Some(per_run),
                        !.pc = "aborted"]
        ELSE [st EXCEPT !.db = r.db,
                        !.counts.LocationData = CountLocations(r.db),
                        !.requested.geocode = Some(per_run),
                        !.pc = "default"]

(* line 143 *)
DefaultStage(st) ==
    [st EXCEPT !.db = assign_default_location(st.db), !.pc = "seed_locations"]

(* lines 145-155 *)
SeedLocationsStage(st, w) ==
    IF st.counts.LocationData < MIN_LOCATION_ROWS /\ w.allow_seed
    THEN LET r == seed_locations(st.db, MIN_LOCATION_ROWS)
         IN  [st EXCEPT !.db = assign_default_location(r.db),
                        !.counts.LocationData = CountLocations(r.db),
                        !.pc = "transit"]
    ELSE [st EXCEPT !.pc = "transit"]

(* int(cursor_value), 0 on TypeError / ValueError *)
CycleIndex(cursor_value) ==
    IF \E k \in 0..9 : cursor_value = Some(Str(k))
    THEN CHOOSE k \in 0..9 : cursor_value = Some(Str(k))
    ELSE 0

(* lines 158-223; an exception of fetch_transit_stops ends the process
   before set_api_cursor *)
TransitStage(st, w) ==
    IF st.counts.TransitStops < MIN_TRANSIT_ROWS
    THEN LET remaining_transit == MIN_TRANSIT_ROWS - st.counts.TransitStops
             per_run_transit == Min(MAX_API_ITEMS_PER_RUN, remaining_transit)
             cursor_value == get_api_cursor(st.db, "transit_cycle", Some("0"))
             cycle_index == CycleIndex(cursor_value)
             k == cycle_index % Len(stop_type_cycle)
             r == fetch_transit_stops(st.db, per_run_transit,
                                      TransitFeed(w.transit, k))
             d == set_api_cursor(
                      r.db, "transit_cycle",
                      Some(Str((cycle_index + 1) % Len(stop_type_cycle))))
         IN  IF r.raised
             THEN [st EXCEPT !.requested.transit = Some(per_run_transit),
                             !.pc = "aborted"]
             ELSE [st EXCEPT !.db = d,
                             !.counts.TransitStops = get_transit_stop_count(d),
                             !.requested.transit = Some(per_run_transit),
                             !.pc = "seed_transit"]
    ELSE [st EXCEPT !.pc = "seed_transit"]

(* lines 225-232 *)
SeedTransitStage(st, w) ==
    IF st.counts.TransitStops < MIN_TRANSIT_ROWS /\ w.allow_seed
    THEN LET r == seed_transit_stops(st.db, MIN_TRANSIT_ROWS)
         IN  [st EXCEPT !.db = r.db,
                        !.counts.TransitStops = get_transit_stop_count(r.db),
                        !.pc = "weather"]
    ELSE [st EXCEPT !.pc = "weather"]

(* get_unique_crime_months: SELECT DISTINCT month FROM CrimeData *)
get_unique_crime_months(db) ==
    {db.CrimeData[i].month : i \in DOMAIN db.CrimeData}

(* expand_month_to_dates raises on a month that is NULL or not "YYYY-MM" *)
ExpandRaises(months) ==
    \E m \in months : IsNull(m) \/ ParseMonth(Val(m)) = <<>>

(* expand_month_to_dates(month_str) *)
expand_month_to_dates(month_str) ==
    LET ym == ParseMonth(month_str)
    IN  Tuple([day \in 1..DaysInMonth(ym[1], ym[2]) |->
                   <<ym[1], ym[2], day>>])

(* lines 236-242: the dates of the months, concatenated month by month
   (months taken in ascending order) and then sorted(set(...)) *)
RECURSIVE ExpandAll(_)
ExpandAll(months) ==
    IF months = {} THEN <<>>
    ELSE LET first == CHOOSE m \in months : \A n \in months :
                          m = n \/ DateLess(ParseMonth(Val(m)) \o <<0>>,
                                            ParseMonth(Val(n)) \o <<0>>)
         IN  expand_month_to_dates(Val(first)) \o ExpandAll(months \ {first})

DATES(db) == SortUnique(ExpandAll(get_unique_crime_months(db)))

(* lines 234-258; an exception of expand_month_to_dates ends the process *)
WeatherStage(st, w) ==
    IF ExpandRaises(get_unique_crime_months(st.db))
    THEN [st EXCEPT !.pc = "aborted"]
    ELSE LET per_run ==
                 IF st.counts.WeatherData < MIN_WEATHER_ROWS
                 THEN Min(MAX_API_ITEMS_PER_RUN,
                          MIN_WEATHER_ROWS - st.counts.WeatherData)
                 ELSE MAX_API_ITEMS_PER_RUN
             r == fetch_weather_for_all_locations(
                      st.db, DATES(st.db), per_run, w.weather)
         IN  [st EXCEPT !.db = r.db,
                        !.counts.WeatherData = Len(r.db.WeatherData),
                        !.requested.weather = Some(per_run),
                        !.pc = "analysis"]

(* lines 260-288: the analysis and reporting read the store *)
AnalysisStage(st) == [st EXCEPT !.pc = "done"]

(* one stage of main, by position *)
Stage(st, w) ==
    CASE st.pc = "start" -> SetupStage(st)
      [] st.pc = "crime" -> CrimeStage(st, w)
      [] st.pc = "release" -> ReleaseStage(st)
      [] st.pc = "geocode" -> GeocodeStage(st, w)
      [] st.pc = "default" -> DefaultStage(st)
      [] st.pc = "seed_locations" -> SeedLocationsStage(st, w)
      [] st.pc = "transit" -> TransitStage(st, w)
      [] st.pc = "seed_transit" -> SeedTransitStage(st, w)
      [] st.pc = "weather" -> WeatherStage(st, w)
      [] st.pc = "analysis" -> AnalysisStage(st)

(* main from position st.pc to its end *)
RECURSIVE RunMain(_, _)
RunMain(st, w) ==
    IF st.pc \in {"done", "aborted"} THEN st ELSE RunMain(Stage(st, w), w)

StartState(db) ==
    [db |-> db, pc |-> "start", start_counts |-> read_counts(db),
     counts |-> read_counts(db), requested |-> NoRequests, released |-> NULL]

(***************************************************************************)
(* State: the six tables of the store, the position of main and its        *)
(* locals, the behaviour of the upstream services, and the arguments and   *)
(* the result of a direct call of derive_crime_date.                       *)
(***************************************************************************)
VARIABLES CrimeData, LocationData, StreetData, WeatherData, TransitStops,
          api_cursors, pc, start_counts, counts, requested, released, world,
          arg_month, arg_seed, ret_date, ncalls,
          adapter, answers, sent, outcome, report

tables ==
    <<CrimeData, LocationData, StreetData, WeatherData, TransitStops,
      api_cursors>>

locals == <<start_counts, counts, requested, released>>

call ==
    <<arg_month, arg_seed, ret_date, ncalls, adapter, answers, sent, outcome,
      report>>

vars == <<tables, pc, locals, world, call>>

DB ==
    [CrimeData |-> CrimeData, LocationData |-> LocationData,
     StreetData |-> StreetData, WeatherData |-> WeatherData,
     TransitStops |-> TransitStops, api_cursors |-> api_cursors]

State ==
    [db |-> DB, pc |-> pc, start_counts |-> start_counts, counts |-> counts,
     requested |-> requested, released |-> released]

(* the store becomes d *)
Store(d) ==
    /\ CrimeData' = d.CrimeData
    /\ LocationData' = d.LocationData
    /\ StreetData' = d.StreetData
    /\ WeatherData' = d.WeatherData
    /\ TransitStops' = d.TransitStops
    /\ api_cursors' = d.api_cursors

(* the run state becomes st *)
Commit(st) ==
    /\ Store(st.db)
    /\ pc' = st.pc
    /\ start_counts' = st.start_counts
    /\ counts' = st.counts
    /\ requested' = st.requested
    /\ released' = st.released

(* the months of the earlier runs that left the initial store *)
PriorMonths ==
    <<"2023-09", "2023-08", "2023-07", "2023-06", "2023-05", "2023-04">>

(* the number of earlier runs of main an initial store may come from *)
MaxPrior == 4

NominalWorld(month_str) ==
    [crime |-> "full", geocoder |-> "distinct", transit |-> "ok",
     weather |-> "ok", month |-> month_str, allow_seed |-> FALSE]

(* <<the store j complete runs of main leave : j = 1..k>>, one month per
   run, starting from the empty store *)
RECURSIVE PriorRuns(_)
PriorRuns(k) ==
    IF k = 0 THEN <<>>
    ELSE LET before == PriorRuns(k - 1)
             db == IF k = 1 THEN EmptyDB ELSE before[k - 1]
         IN  Append(before,
                    RunMain(StartState(db), NominalWorld(PriorMonths[k])).db)

(* the stores main may start from *)
PriorStores == <<EmptyDB>> \o PriorRuns(MaxPrior)

PriorDB(k) == PriorStores[k + 1]

(* the upstream behaviours: the crime feed, the geocoder, the transit feed,
   the weather service, the month asked for and the allow_seed switch *)
AllWorlds ==
    [crime : {"full", "aba", "partial", "empty"},
     geocoder : {"distinct", "same", "nolabel", "none", "flaky"},
     transit : {"ok", "partial", "error", "malformed"},
     weather : {"ok", "alt", "late", "none"},
     month : {"2023-09", "2024-02"},
     allow_seed : BOOLEAN]

(* the number of upstream services that do not behave nominally *)
Faults(w) ==
    LET n == NominalWorld(w.month)
        One(b) == IF b THEN 1 ELSE 0
    IN  One(w.crime # n.crime) + One(w.geocoder # n.geocoder)
            + One(w.transit # n.transit) + One(w.weather # n.weather)

(* at most MaxFaults services misbehave in one world *)
MaxFaults == 1

Worlds == {w \in AllWorlds : Faults(w) <= MaxFaults}

(* main is about to start on the store db *)
InitStore(db) ==
    /\ CrimeData = db.CrimeData
    /\ LocationData = db.LocationData
    /\ StreetData = db.StreetData
    /\ WeatherData = db.WeatherData
    /\ TransitStops = db.TransitStops
    /\ api_cursors = db.api_cursors
    /\ pc = "start"
    /\ start_counts = read_counts(EmptyDB)
    /\ counts = read_counts(EmptyDB)
    /\ requested = NoRequests
    /\ released = NULL

(* no single upstream call is being followed *)
NoRequest == adapter = NULL /\ answers = <<>> /\ sent = 0 /\ outcome = NULL

(* no direct call of derive_crime_date is under way, and no analysis
   result is held *)
NoCall ==
    /\ arg_month = NULL /\ arg_seed = NULL /\ ret_date = NULL /\ ncalls = 0
    /\ NoRequest
    /\ report = NULL

Init ==
    \E db \in {PriorDB(k) : k \in 0..MaxPrior} :
        InitStore(db) /\ world \in Worlds /\ NoCall

Setup == pc = "start" /\ Commit(SetupStage(State)) /\ UNCHANGED <<world, call>>

FetchCrimes == pc = "crime" /\ Commit(CrimeStage(State, world)) /\ UNCHANGED <<world, call>>

Release == pc = "release" /\ Commit(ReleaseStage(State)) /\ UNCHANGED <<world, call>>

Geocode == pc = "geocode" /\ Commit(GeocodeStage(State, world)) /\ UNCHANGED <<world, call>>

AssignDefault == pc = "default" /\ Commit(DefaultStage(State)) /\ UNCHANGED <<world, call>>

SeedLocations ==
    pc = "seed_locations" /\ Commit(SeedLocationsStage(State, world))
                          /\ UNCHANGED <<world, call>>

FetchTransit == pc = "transit" /\ Commit(TransitStage(State, world)) /\ UNCHANGED <<world, call>>

SeedTransit ==
    pc = "seed_transit" /\ Commit(SeedTransitStage(State, world))
                        /\ UNCHANGED <<world, call>>

FetchWeather == pc = "weather" /\ Commit(WeatherStage(State, world)) /\ UNCHANGED <<world, call>>

Analysis == pc = "analysis" /\ Commit(AnalysisStage(State)) /\ UNCHANGED <<world, call>>

(* the process has ended; the next invocation starts main again *)
Restart ==
    /\ pc \in {"done", "aborted"}
    /\ pc' = "start"
    /\ UNCHANGED <<tables, locals, world, call>>

Next ==
    \/ Setup
    \/ FetchCrimes
    \/ Release
    \/ Geocode
    \/ AssignDefault
    \/ SeedLocations
    \/ FetchTransit
    \/ SeedTransit
    \/ FetchWeather
    \/ Analysis
    \/ Restart

Spec == Init /\ [][Next]_vars

(***************************************************************************)
(* Direct calls of derive_crime_date on bounded inputs.                    *)
(***************************************************************************)
(* the months passed: every valid month of the model, None, '' and a
   string int() rejects *)
DateMonths == {Some(m) : m \in ValidMonths} \cup {NULL, Some(""), Some("unknown")}

(* the seeds passed *)
DateSeeds ==
    {NULL, Some(""), Some("X"), Some("1"), Some("2"), Some("3"), Some("4"),
     Some("5"), Some("burglary"), Some("robbery"), Some("theft"), Some("p1"),
     Some("p2")}

(* the number of calls made with the same arguments *)
MaxCalls == 2

InitDate ==
    /\ InitStore(EmptyDB)
    /\ world = NominalWorld("2023-09")
    /\ arg_month \in DateMonths
    /\ arg_seed \in DateSeeds
    /\ ret_date = NULL
    /\ ncalls = 0
    /\ NoRequest
    /\ report = NULL

(* ret_date = derive_crime_date(arg_month, arg_seed) *)
Derive ==
    /\ ncalls < MaxCalls
    /\ ret_date' = derive_crime_date(arg_month, arg_seed)
    /\ ncalls' = ncalls + 1
    /\ UNCHANGED <<tables, pc, locals, world, arg_month, arg_seed>>
    /\ UNCHANGED <<adapter, answers, sent, outcome, report>>

NextDate == Derive

SpecDate == InitDate /\ [][NextDate]_vars

(***************************************************************************)
(* Repeated runs of main on an empty store: every upstream service        *)
(* answers, the month is the same in every run, seeding is off.  A run    *)
(* that can start does start, and a run that has started goes on.         *)
(***************************************************************************)
InitConv ==
    /\ InitStore(EmptyDB)
    /\ world \in {NominalWorld(m) : m \in ValidMonths}
    /\ NoCall

(* the control flow of main: the positions that may follow a position *)
Successors(position) ==
    CASE position = "start" -> {"crime"}
      [] position = "crime" -> {"release"}
      [] position = "release" -> {"geocode", "default"}
      [] position = "geocode" -> {"default", "aborted"}
      [] position = "default" -> {"seed_locations"}
      [] position = "seed_locations" -> {"transit"}
      [] position = "transit" -> {"seed_transit", "aborted"}
      [] position = "seed_transit" -> {"weather"}
      [] position = "weather" -> {"analysis", "aborted"}
      [] position = "analysis" -> {"done"}
      [] position = "done" -> {"start"}
      [] position = "aborted" -> {"start"}

(* main moves on to a next position.  Every step of Next is such a step,
   and one is possible in every state: weak fairness of Proceed says that
   the process keeps running and is started again after it ends. *)
Proceed == pc' \in Successors(pc)

SpecConv == InitConv /\ [][Next]_vars /\ WF_pc(Proceed)

(***************************************************************************)
(* Analysis (analysis.py).  The result of a query is the set of its rows.  *)
(* Coordinates are in thousandths of a degree.                              *)
(***************************************************************************)
(* ON C.location_id = W.location_id AND C.crime_date = W.date: a NULL is
   equal to nothing *)
Matched(c, w) ==
    /\ ~IsNull(c.location_id) /\ ~IsNull(w.location_id)
    /\ c.location_id = w.location_id
    /\ ~IsNull(c.crime_date) /\ ~IsNull(w.date)
    /\ c.crime_date = w.date

(* the keys of the crimes joined to weather row w *)
CrimesOn(db, w) ==
    {i \in DOMAIN db.CrimeData : Matched(db.CrimeData[i], w)}

(* calculate_crimes_by_weather: FROM WeatherData W LEFT JOIN CrimeData C
   GROUP BY W.weather_main, with COUNT(C.id) and COUNT(DISTINCT W.date) *)
calculate_crimes_by_weather(db) ==
    LET W == db.WeatherData
        n == Tuple([j \in DOMAIN W |-> Cardinality(CrimesOn(db, W[j]))])
        Add(acc, j) == acc + n[j]
    IN  {[weather_main |-> m,
          total_crimes |->
              Fold(Add, 0, SelectIdx(LAMBDA w : w.weather_main = m, W)),
          days |-> Cardinality({W[j].date : j \in
                                   {q \in DOMAIN W : W[q].weather_main = m
                                                     /\ ~IsNull(W[q].date)}})] :
            m \in {W[j].weather_main : j \in DOMAIN W}}

(* the CASE of calculate_precipitation_effect: a comparison with NULL is
   not true, so a NULL precip_mm falls to the ELSE *)
RainLevel(precip_mm) ==
    IF ~IsNull(precip_mm) /\ Val(precip_mm) = 0 THEN "Dry"
    ELSE IF ~IsNull(precip_mm) /\ Val(precip_mm) >= 10
                               /\ Val(precip_mm) <= 200
    THEN "Light Rain"
    ELSE "Heavy Rain"

(* calculate_precipitation_effect: FROM CrimeData C JOIN WeatherData W
   GROUP BY rain_level, with COUNT(C.id) *)
calculate_precipitation_effect(db) ==
    LET W == db.WeatherData
        n == Tuple([j \in DOMAIN W |-> Cardinality(CrimesOn(db, W[j]))])
        Add(acc, j) == acc + n[j]
        Count(level) ==
            Fold(Add, 0,
                 SelectIdx(LAMBDA w : RainLevel(w.precip_mm) = level, W))
    IN  {[rain_level |-> level, crime_count |-> Count(level)] :
            level \in {b \in {"Dry", "Light Rain", "Heavy Rain"} :
                          Count(b) > 0}}

(* ROUND(W.wind_speed, 1), in hundredths; NULL for a NULL wind_speed *)
WindBin(wind_speed) ==
    IF IsNull(wind_speed) THEN NULL
    ELSE Some(((Val(wind_speed) + 5) \div 10) * 10)

(* calculate_crimes_vs_wind: FROM CrimeData C JOIN WeatherData W
   GROUP BY wind_bin, with COUNT(C.id) *)
calculate_crimes_vs_wind(db) ==
    LET W == db.WeatherData
        n == Tuple([j \in DOMAIN W |-> Cardinality(CrimesOn(db, W[j]))])
        Add(acc, j) == acc + n[j]
        Count(bin) ==
            Fold(Add, 0, SelectIdx(LAMBDA w : WindBin(w.wind_speed) = bin, W))
    IN  {[wind_bin |-> bin, crime_count |-> Count(bin)] :
            bin \in {b \in {WindBin(W[j].wind_speed) : j \in DOMAIN W} :
                        Count(b) > 0}}

STOP_TYPE_MODE_MAP ==
    "NaptanMetroStation" :> "tube" @@ "NaptanRailStation" :> "rail" @@
    "NaptanBusCoachStation" :> "bus" @@ "NaptanPublicBusCoachTram" :> "bus" @@
    "NaptanTramStation" :> "tram" @@ "NaptanFerryPort" :> "river" @@
    "NaptanAirAccessArea" :> "air"

EXPECTED_TRANSIT_MODES ==
    {"tube", "rail", "bus", "tram", "river", "air", "overground", "dlr",
     "coach", "river-bus", "river-tour", "cable-car", "national-rail"}
        \cup {STOP_TYPE_MODE_MAP[t] : t \in DOMAIN STOP_TYPE_MODE_MAP}

(* [fallback] if fallback else [] *)
ModeFallback(stop_type) ==
    IF ~IsNull(stop_type) /\ Val(stop_type) \in DOMAIN STOP_TYPE_MODE_MAP
    THEN <<STOP_TYPE_MODE_MAP[Val(stop_type)]>>
    ELSE <<>>

(* _split_modes(modes_str, stop_type).  The modes string is held as the
   sequence of its comma-separated pieces; the empty string is <<>>. *)
split_modes(modes_str, stop_type) ==
    IF IsNull(modes_str) \/ Val(modes_str) = <<>> \/ Val(modes_str) = <<"">>
    THEN ModeFallback(stop_type)
    ELSE LET pieces == Val(modes_str)
             kept == SelectIdx(LAMBDA m : Strip(m) # "", pieces)
             modes == Tuple([i \in DOMAIN kept |-> Strip(pieces[kept[i]])])
         IN  IF modes # <<>> THEN modes ELSE ModeFallback(stop_type)

(* ABS(C.latitude - T.lat) <= 0.01 AND ABS(C.longitude - T.lon) <= 0.01 *)
Near(c, t) ==
    /\ ~IsNull(c.latitude) /\ ~IsNull(c.longitude)
    /\ ~IsNull(t.lat) /\ ~IsNull(t.lon)
    /\ Val(c.latitude) - Val(t.lat) \in -10..10
    /\ Val(c.longitude) - Val(t.lon) \in -10..10

(* the query of calculate_crimes_near_transit: crime_count by stop_id *)
NearbyCrimes(db) ==
    Tuple([t \in DOMAIN db.TransitStops |->
              Cardinality({i \in DOMAIN db.CrimeData :
                              Near(db.CrimeData[i], db.TransitStops[t])})])

(* the columns mode_list and mode_count of a stop *)
ModeList(stop) ==
    LET lst == split_modes(stop.modes, stop.stop_type)
    IN  IF lst # <<>> THEN lst ELSE <<"unknown">>

ModeCount(stop) ==
    LET lst == split_modes(stop.modes, stop.stop_type)
    IN  IF lst # <<>> THEN Len(lst) ELSE 1

(* weighted_crimes are held in sixtieths of a crime, which is exact for
   up to 6 modes per stop *)
WeightUnit == 60

(* variant: the crimes of a stop counted once per mode *)
WeightedWhole(crime_count, mode_count) == WeightUnit * crime_count

(* crime_count / mode_count *)
Weighted(crime_count, mode_count) == (WeightUnit * crime_count) \div mode_count

(* round(2) of a number of sixtieths, in hundredths: 100 n / 60 is never
   half way between two hundredths *)
Round2(n) == (10 * n + 3) \div 6

(* the sum of weighted_crimes of the exploded rows of one mode *)
ModeWeight(db, nearby, mode) ==
    LET Add(acc, t) ==
            LET stop == db.TransitStops[t]
                lst == ModeList(stop)
            IN  acc + Cardinality({i \in DOMAIN lst : lst[i] = mode})
                          * Weighted(nearby[t], ModeCount(stop))
    IN  Fold(Add, 0, Tuple([t \in DOMAIN db.TransitStops |-> t]))

(* calculate_crimes_near_transit: the rows [mode, crime_count, stop_count],
   crime_count in hundredths *)
calculate_crimes_near_transit(db) ==
    IF db.TransitStops = <<>> THEN {}
    ELSE LET T == db.TransitStops
             nearby == NearbyCrimes(db)
             Serves(t, mode) ==
                 \E i \in DOMAIN ModeList(T[t]) : ModeList(T[t])[i] = mode
             present == UNION {{ModeList(T[t])[i] : i \in DOMAIN ModeList(T[t])} :
                                  t \in DOMAIN T}
             grouped ==
                 {[mode |-> m,
                   crime_count |-> Round2(ModeWeight(db, nearby, m)),
                   stop_count |-> Cardinality({t \in DOMAIN T : Serves(t, m)})] :
                     m \in present}
             missing_modes == EXPECTED_TRANSIT_MODES \ present
             filler == {[mode |-> m, crime_count |-> 0, stop_count |-> 0] :
                           m \in missing_modes}
         IN  grouped \cup filler

(***************************************************************************)
(* One upstream call of one adapter, request by request.  `answers` holds  *)
(* what the service would answer to the first and to a second request of   *)
(* the call; `sent` counts the requests the adapter sends, and `outcome`   *)
(* says how the call ends:                                                  *)
(*   "rows"   the response is processed (rows may be inserted);             *)
(*   "zero"   the adapter returns to its caller with nothing;               *)
(*   "sample" the records of data/sample_crimes.json are returned;          *)
(*   "raised" an exception leaves the adapter.                              *)
(***************************************************************************)
Adapters == {"crime", "geocode", "transit", "weather"}

(* an HTTP status, no answer in 30 seconds, a refused connection, or a
   body that is not JSON *)
Answers == {"200", "429", "500", "timeout", "refused", "malformed"}

(* the number of answers the service holds ready for one call *)
MaxAnswers == 2

(* requests.get raises: Timeout or ConnectionError *)
NetworkError(answer) == answer \in {"timeout", "refused"}

(* resp.raise_for_status() raises HTTPError *)
HttpError(answer) == answer \in {"429", "500"}

(* fetch_crimes_poly: one request; any exception is caught and the sample
   file is opened instead, which raises when the file is not there *)
fetch_crimes_poly(answer) ==
    [sent |-> 1,
     outcomes |-> IF answer = "200" THEN {"rows"} ELSE {"sample", "raised"}]

(* the request of reverse_geocode: nothing is caught *)
RequestGeocode(answer) ==
    [sent |-> 1,
     outcomes |-> IF answer = "200" THEN {"rows"} ELSE {"raised"}]

(* the request of fetch_transit_stops: RequestException is caught around
   requests.get and raise_for_status; resp.json() is outside the try *)
RequestStops(answer) ==
    [sent |-> 1,
     outcomes |-> IF NetworkError(answer) \/ HttpError(answer) THEN {"zero"}
                  ELSE IF answer = "200" THEN {"rows"} ELSE {"raised"}]

(* the request of fetch_weather: only HTTPError is caught *)
RequestWeather(answer) ==
    [sent |-> 1,
     outcomes |-> IF HttpError(answer) THEN {"zero"}
                  ELSE IF answer = "200" THEN {"rows"} ELSE {"raised"}]

InitHttp ==
    /\ InitStore(EmptyDB)
    /\ world = NominalWorld("2023-09")
    /\ arg_month = NULL /\ arg_seed = NULL /\ ret_date = NULL /\ ncalls = 0
    /\ adapter \in {Some(a) : a \in Adapters}
    /\ answers \in [1..MaxAnswers -> Answers]
    /\ sent = 0
    /\ outcome = NULL
    /\ report = NULL

(* the call ends as r says *)
Ended(r) ==
    /\ sent' = r.sent
    /\ \E o \in r.outcomes : outcome' = Some(o)
    /\ UNCHANGED <<tables, pc, locals, world>>
    /\ UNCHANGED <<arg_month, arg_seed, ret_date, ncalls, adapter, answers>>
    /\ UNCHANGED report

CallCrime ==
    adapter = Some("crime") /\ IsNull(outcome)
        /\ Ended(fetch_crimes_poly(answers[1]))

CallGeocode ==
    adapter = Some("geocode") /\ IsNull(outcome)
        /\ Ended(RequestGeocode(answers[1]))

CallTransit ==
    adapter = Some("transit") /\ IsNull(outcome)
        /\ Ended(RequestStops(answers[1]))

CallWeather ==
    adapter = Some("weather") /\ IsNull(outcome)
        /\ Ended(RequestWeather(answers[1]))

NextHttp ==
    \/ CallCrime
    \/ CallGeocode
    \/ CallTransit
    \/ CallWeather

SpecHttp == InitHttp /\ [][NextHttp]_vars

(***************************************************************************)
(* The analysis on small stores.  A store holds up to MaxCrimes crimes of  *)
(* one month, all on the fallback location, a weather row for the date of  *)
(* each of the first MaxDays crimes, and up to MaxStops transit stops.     *)
(***************************************************************************)
MaxStops == 2

MaxCrimes == 2

MaxDays == 1

AnalysisMonth == "2023-09"

(* the stops a store may hold: stop type, modes string and coordinates;
   the crimes of AnalysisMonth lie within 0.01 degree of the first
   coordinates and far from the second *)
StopKinds ==
    LET near == <<51900, -150>>
        far == <<51515, -130>>
        Kind(stop_type, modes, coords) ==
            [stop_type |-> Some(stop_type), modes |-> Some(modes),
             lat |-> Some(coords[1]), lon |-> Some(coords[2])]
    IN  {Kind("NaptanMetroStation", <<"tube">>, near),
         Kind("NaptanBusCoachStation", <<"bus", "coach">>, near),
         Kind("NaptanMetroStation", <<"tube", "dlr", "overground">>, near),
         Kind("NaptanMetroStation", <<"tube", "dlr", "overground">>, far),
         Kind("NaptanMetroStation", <<>>, near),
         Kind("NaptanOnStreetBusCoachStopPair", <<>>, near),
         Kind("NaptanRailStation", <<" ">>, near)}

(* the values of precipitation_sum the weather service may answer *)
Precips == {Some(0), Some(5), Some(10), Some(200), Some(201), NULL}

(* the store after the crime adapter stored n incidents and the fallback
   location was assigned *)
WithCrimes(n) ==
    assign_default_location(
        fetch_and_store_crimes(
            EmptyDB, Tuple([i \in 1..n |-> RawCrime(AnalysisMonth, i)]), n))

(* db after a weather row was stored for the location and the date of
   crime number pk, with precipitation precip *)
WithWeather(db, pk, precip) ==
    LET c == db.CrimeData[pk]
        loc == db.LocationData[Val(c.location_id)]
        date == Val(c.crime_date)
        daily == [Val(WeatherService("ok", loc.lat, loc.lon, date))
                      EXCEPT !.precipitation_sum = precip]
    IN  insert_weather(db, [location_id |-> c.location_id]
                               @@ WeatherOf(daily, date))

(* db after the stops of the sequence kinds were stored *)
WithStops(db, kinds) ==
    LET StoreStop(d, i) ==
            insert_transit_stop(
                d, [naptan_id |-> Some("N" \o Str(i))] @@ kinds[i])
    IN  Fold(StoreStop, db, Tuple([i \in DOMAIN kinds |-> i]))

(* the stores the analysis is computed on; the weather row of each day is
   stored twice over, as by the weather adapter in two runs *)
AnalysisStores ==
    {WithStops(
         Fold(LAMBDA d, pk : WithWeather(d, pk, precips[pk]),
              WithCrimes(n),
              Tuple([pk \in 1..Min(n, MaxDays) |-> pk])
                  \o Tuple([pk \in 1..Min(n, MaxDays) |-> pk])),
         kinds) :
        n \in 0..MaxCrimes,
        precips \in [1..MaxDays -> Precips],
        kinds \in UNION {[1..len -> StopKinds] : len \in 0..MaxStops}}

InitAnalysis ==
    /\ \E db \in AnalysisStores :
           /\ CrimeData = db.CrimeData
           /\ LocationData = db.LocationData
           /\ StreetData = db.StreetData
           /\ WeatherData = db.WeatherData
           /\ TransitStops = db.TransitStops
           /\ api_cursors = db.api_cursors
           /\ start_counts = read_counts(db)
           /\ counts = read_counts(db)
    /\ pc = "analysis"
    /\ requested = NoRequests
    /\ released = NULL
    /\ world = NominalWorld(AnalysisMonth)
    /\ arg_month = NULL /\ arg_seed = NULL /\ ret_date = NULL /\ ncalls = 0
    /\ NoRequest
    /\ report = NULL

(* lines 262-267 of main: the grouped outputs are computed from the store *)
ComputeAnalysis ==
    /\ IsNull(report)
    /\ report' = Some([weather |-> calculate_crimes_by_weather(DB),
                       wind |-> calculate_crimes_vs_wind(DB),
                       rain |-> calculate_precipitation_effect(DB),
                       transit |-> calculate_crimes_near_transit(DB)])
    /\ UNCHANGED <<tables, pc, locals, world>>
    /\ UNCHANGED <<arg_month, arg_seed, ret_date, ncalls>>
    /\ UNCHANGED <<adapter, answers, sent, outcome>>

NextAnalysis == ComputeAnalysis

SpecAnalysis == InitAnalysis /\ [][NextAnalysis]_vars

(***************************************************************************)
(* set_up_database on stores written before CrimeData had a crime_date     *)
(* column: up to MaxLegacy crimes stored by insert_crime, each with its    *)
(* crime_date present or missing.  set_up_database is called up to         *)
(* MaxCalls times in a row.                                                 *)
(***************************************************************************)
MaxLegacy == 2

LegacyMonths == {"2023-09", "2024-02"}

(* an incident whose street carries a name and no id *)
UnnumberedStreet(month_str) ==
    [RawCrime(month_str, 6) EXCEPT
        !.location = Some([Val(@) EXCEPT
            !.street = Some([id |-> NULL, name |-> Some("On or near S9")])])]

(* the incidents of the stores: with and without id, street, street id,
   location, category and month *)
LegacyItems ==
    UNION {{CrimeFeed("partial", m)[i] : i \in 1..5}
               \cup {CrimeFeed("aba", m)[2],
                     [RawCrime(m, 1) EXCEPT !.month = NULL],
                     UnnumberedStreet(m)} :
              m \in LegacyMonths}

(* the store after insert_crime stored the incidents items[i] in turn; the
   crime_date of the row of items[i] is missing when blank[i] *)
LegacyStore(items, blank) ==
    LET StoreLegacy(d, i) ==
            LET stored == insert_crime(d, normalize_crime(items[i]))
                pk == Len(stored.CrimeData)
            IN  IF blank[i] /\ pk > Len(d.CrimeData)
                THEN [stored EXCEPT !.CrimeData[pk].crime_date = NULL]
                ELSE stored
    IN  Fold(StoreLegacy, EmptyDB, Tuple([i \in DOMAIN items |-> i]))

LegacyStores ==
    {LegacyStore(items, blank) :
        <<items, blank>> \in
            UNION {[1..len -> LegacyItems] \X [1..len -> BOOLEAN] :
                      len \in 0..MaxLegacy}}

InitSetup ==
    /\ \E db \in LegacyStores : InitStore(db)
    /\ world = NominalWorld("2023-09")
    /\ NoCall

(* one call of set_up_database *)
SetUp ==
    /\ ncalls < MaxCalls
    /\ Store(set_up_database(DB))
    /\ ncalls' = ncalls + 1
    /\ UNCHANGED <<pc, locals, world, arg_month, arg_seed, ret_date>>
    /\ UNCHANGED <<adapter, answers, sent, outcome, report>>

NextSetup == SetUp

SpecSetup == InitSetup /\ [][NextSetup]_vars

(***************************************************************************)
(* Direct calls of seed_locations and seed_transit_stops with targets up   *)
(* to MaxSeedTarget, in any order with the geocode adapter storing a       *)
(* location and the transit adapter storing a stop, MaxSeedSteps           *)
(* operations in all, from the empty store.  `outcome` holds the last      *)
(* seeding call: its name, its target and the number it returned.          *)
(***************************************************************************)
MaxSeedTarget == 3

MaxSeedSteps == 3

InitSeed ==
    /\ InitStore(EmptyDB)
    /\ world = NominalWorld("2023-09")
    /\ NoCall

(* the variables a seeding step leaves alone *)
SeedFrame ==
    /\ ncalls' = ncalls + 1
    /\ UNCHANGED <<pc, locals, world, arg_month, arg_seed, ret_date>>
    /\ UNCHANGED <<adapter, answers, sent, report>>

(* seed_locations(conn, target) *)
CallSeedLocations ==
    /\ ncalls < MaxSeedSteps
    /\ \E target \in 0..MaxSeedTarget :
           LET r == seed_locations(DB, target)
           IN  /\ Store(r.db)
               /\ outcome' = Some([call |-> "seed_locations",
                                   target |-> target, added |-> r.added])
    /\ SeedFrame

(* seed_transit_stops(conn, target) *)
CallSeedTransit ==
    /\ ncalls < MaxSeedSteps
    /\ \E target \in 0..MaxSeedTarget :
           LET r == seed_transit_stops(DB, target)
           IN  /\ Store(r.db)
               /\ outcome' = Some([call |-> "seed_transit_stops",
                                   target |-> target, added |-> r.added])
    /\ SeedFrame

(* the geocode adapter stores the location of one answer of the geocoder *)
StoreLocation ==
    /\ ncalls < MaxSeedSteps
    /\ \E lat \in {Some(51901), Some(51902)} :
           LET g == Val(reverse_geocode("distinct", lat, Some(-154)).geo)
           IN  Store(insert_location(DB, g.city, g.county, g.region,
                                     g.lat, g.lon, g.label).db)
    /\ outcome' = NULL
    /\ SeedFrame

(* the transit adapter stores one stop of the directory *)
StoreStop ==
    /\ ncalls < MaxSeedSteps
    /\ \E i \in 1..2 :
           Store(insert_transit_stop(DB, Val(normalize_stop(RawStop(0, i)))))
    /\ outcome' = NULL
    /\ SeedFrame

NextSeed ==
    \/ CallSeedLocations
    \/ CallSeedTransit
    \/ StoreLocation
    \/ StoreStop

SpecSeed == InitSeed /\ [][NextSeed]_vars

(***************************************************************************)
(* Direct calls of set_api_cursor and get_api_cursor for two source names, *)
(* in any order, with set_up_database (the start of a run) in between,     *)
(* MaxCursorSteps calls in all, from the empty store.  `outcome` holds the *)
(* last call: its name, its arguments and, for get_api_cursor, the value   *)
(* returned.                                                                *)
(***************************************************************************)
MaxCursorSteps == 4

CursorNames == {"transit_cycle", "crime_cycle"}

CursorValues == {Some("0"), Some("1")}

CursorDefaults == {NULL, Some("0")}

InitCursor ==
    /\ InitStore(EmptyDB)
    /\ world = NominalWorld("2023-09")
    /\ NoCall

(* the variables a cursor call leaves alone *)
CursorFrame ==
    /\ ncalls' = ncalls + 1
    /\ UNCHANGED <<pc, locals, world, arg_month, arg_seed, ret_date>>
    /\ UNCHANGED <<adapter, answers, sent, report>>

(* set_api_cursor(conn, api_name, value) *)
SetCursor ==
    /\ ncalls < MaxCursorSteps
    /\ \E api_name \in CursorNames, value \in CursorValues :
           /\ Store(set_api_cursor(DB, api_name, value))
           /\ outcome' = Some([call |-> "set_api_cursor",
                               api_name |-> api_name, value |-> value])
    /\ CursorFrame

(* get_api_cursor(conn, api_name, default) *)
GetCursor ==
    /\ ncalls < MaxCursorSteps
    /\ \E api_name \in CursorNames, default \in CursorDefaults :
           outcome' = Some([call |-> "get_api_cursor", api_name |-> api_name,
                           default |-> default,
                           value |-> get_api_cursor(DB, api_name, default)])
    /\ UNCHANGED tables
    /\ CursorFrame

(* the next run starts: set_up_database *)
OpenAgain ==
    /\ ncalls < MaxCursorSteps
    /\ Store(set_up_database(DB))
    /\ outcome' = NULL
    /\ CursorFrame

NextCursor ==
    \/ SetCursor
    \/ GetCursor
    \/ OpenAgain

SpecCursor == InitCursor /\ [][NextCursor]_vars

(***************************************************************************)
(* Properties.                                                             *)
(***************************************************************************)
(* the rows of CrimeData / LocationData / WeatherData that carry a key *)
CrimesWithId == {i \in DOMAIN CrimeData : ~IsNull(CrimeData[i].crime_id)}

LabelledLocations == {i \in DOMAIN LocationData : ~IsNull(LocationData[i].label)}

(* the first and the last key of a table *)
Ends(table) == {1, Len(table)} \cap DOMAIN table

(* C1: for the payload of the crime feed and any prior store, calling
   fetch_and_store_crimes twice with the same month and max_items leaves
   CrimeData with as many rows as calling it once *)
C1_TwiceAsOnce ==
    \A max_items \in {1, 5, MAX_API_ITEMS_PER_RUN} :
        LET crimes == CrimeFeed(world.crime, world.month)
            once == fetch_and_store_crimes(DB, crimes, max_items)
            twice == fetch_and_store_crimes(once, crimes, max_items)
        IN  Len(twice.CrimeData) = Len(once.CrimeData)

(* the crime the row pk came from, resent with another category and at
   other coordinates *)
Resent(pk) ==
    LET c == CrimeData[pk]
    IN  [crime_id |-> c.crime_id, persistent_id |-> c.persistent_id,
         month |-> c.month, category |-> Some("resent"),
         latitude |-> Some(1), longitude |-> Some(1), street_id |-> NULL,
         street_name |-> Some(""), location_id |-> NULL]

(* C2: no two CrimeData rows carry the same crime_id (the rows with a
   crime_id carry as many crime_ids as they are); inserting a crime
   whose crime_id is stored leaves CrimeData as it is; and the batch A, B, A
   adds at most 2 rows, exactly 2 on an empty store *)
C2_UniqueCrimeId ==
    /\ Cardinality({CrimeData[i].crime_id : i \in CrimesWithId})
           = Cardinality(CrimesWithId)
    /\ \A pk \in Ends(CrimeData) \cap CrimesWithId :
           insert_crime(DB, Resent(pk)).CrimeData = CrimeData
    /\ (world.crime = "aba" /\ pc = "release" /\ ~IsNull(requested.crime))
           => /\ Len(CrimeData) <= start_counts.CrimeData + 2
              /\ start_counts.CrimeData = 0 => Len(CrimeData) = 2

(* the batch A, B, A has been stored in an empty table, which holds the
   2 rows A and B *)
C2_Witness ==
    /\ world.crime = "aba"
    /\ pc = "release"
    /\ start_counts.CrimeData = 0
    /\ requested.crime = Some(MAX_API_ITEMS_PER_RUN)
    /\ Len(CrimeData) = 2
    /\ CrimeData[1].crime_id # CrimeData[2].crime_id

(* every table holds its target number of rows *)
TargetsMet ==
    /\ Len(CrimeData) >= MIN_CRIME_ROWS
    /\ Len(LocationData) >= MIN_LOCATION_ROWS
    /\ Len(WeatherData) >= MIN_WEATHER_ROWS
    /\ Len(TransitStops) >= MIN_TRANSIT_ROWS

(* C3: repeated runs of main with a fixed month, seeding disabled and
   upstream services that answer with at least 100 distinct items
   eventually bring the four tables to at least 100 rows each *)
C3_Converges == <>TargetsMet

(* the count _read_counts took at the start of the run for the table a
   source fills *)
CurrentOf(source) ==
    CASE source = "crime" -> start_counts.CrimeData
      [] source = "geocode" -> start_counts.LocationData
      [] source = "transit" -> start_counts.TransitStops
      [] source = "weather" -> start_counts.WeatherData

(* T, the target of the table a source fills *)
TargetOf(source) ==
    CASE source = "crime" -> MIN_CRIME_ROWS
      [] source = "geocode" -> MIN_LOCATION_ROWS
      [] source = "transit" -> MIN_TRANSIT_ROWS
      [] source = "weather" -> MIN_WEATHER_ROWS

Sources == {"crime", "geocode", "transit", "weather"}

(* the sources whose adapter has been called in this run *)
Called == {s \in Sources : ~IsNull(requested[s])}

(* C4, as the specification states it: every quota passed to an adapter is
   at least 0 and at most min(B, max(0, T - current)) *)
C4_QuotaWithinGap ==
    \A s \in Called :
        /\ Val(requested[s]) >= 0
        /\ Val(requested[s]) <=
               Min(MAX_API_ITEMS_PER_RUN, Max(0, TargetOf(s) - CurrentOf(s)))

(* C4, as the code has it: the crime, geocode and transit adapters are
   called only below the target, with quota min(B, T - current); the weather
   adapter is called in every run, with quota min(B, T - current) below the
   target and the refresh batch B at or above it; every quota is in 1..B *)
C4_QuotaOrRefresh ==
    \A s \in Called :
        /\ Val(requested[s]) \in 1..MAX_API_ITEMS_PER_RUN
        /\ IF CurrentOf(s) < TargetOf(s)
           THEN Val(requested[s]) =
                    Min(MAX_API_ITEMS_PER_RUN, TargetOf(s) - CurrentOf(s))
           ELSE s = "weather" /\ Val(requested[s]) = MAX_API_ITEMS_PER_RUN

(* a run that started with the weather target met has asked the weather
   adapter for the refresh batch, and for nothing else *)
C4_Witness ==
    /\ pc = "done"
    /\ start_counts.WeatherData >= MIN_WEATHER_ROWS
    /\ requested.weather = Some(MAX_API_ITEMS_PER_RUN)
    /\ Called = {"weather"}

(* C5: an adapter called with quota q stores at most q rows, and a run
   with seeding disabled adds at most B rows to a table *)
C5_AtMostQuota ==
    /\ pc = "geocode" =>
           LET q == GeocodePerRun(State)
               r == geocode_and_attach_locations(DB, q, world.geocoder)
           IN  Len(r.db.LocationData) <= Len(LocationData) + q
    /\ (pc = "release" /\ "crime" \in Called) =>
           Len(CrimeData) <= start_counts.CrimeData + Val(requested.crime)
    /\ (pc = "seed_transit" /\ "transit" \in Called) =>
           Len(TransitStops)
               <= start_counts.TransitStops + Val(requested.transit)
    /\ (pc = "analysis" /\ "weather" \in Called) =>
           Len(WeatherData) <= start_counts.WeatherData + Val(requested.weather)
    /\ (pc = "done" /\ ~world.allow_seed) =>
           /\ Len(CrimeData) <= start_counts.CrimeData + MAX_API_ITEMS_PER_RUN
           /\ Len(TransitStops)
                  <= start_counts.TransitStops + MAX_API_ITEMS_PER_RUN
           /\ Len(WeatherData)
                  <= start_counts.WeatherData + MAX_API_ITEMS_PER_RUN

(* the positions of main after assign_default_location has returned *)
AfterDefault ==
    {"seed_locations", "transit", "seed_transit", "weather", "analysis", "done"}

(* C6: once assign_default_location has returned, and so at the end of a
   completed run, no crime has a null location_id and every crime
   references a row of LocationData *)
C6_EveryCrimeLocated ==
    pc \in AfterDefault =>
        \A i \in DOMAIN CrimeData :
            /\ ~IsNull(CrimeData[i].location_id)
            /\ Val(CrimeData[i].location_id) \in DOMAIN LocationData

(* a completed run that stored a crime without coordinates and a geocoded
   crime: the first is on the default location, the second on another *)
C6_Witness ==
    /\ pc = "done"
    /\ \E i, j \in DOMAIN CrimeData :
           /\ IsNull(CrimeData[i].latitude)
           /\ LocationData[Val(CrimeData[i].location_id)].label
                  = Some(AssignLabel)
           /\ ~IsNull(CrimeData[j].latitude)
           /\ LocationData[Val(CrimeData[j].location_id)].label
                  # Some(AssignLabel)

(* the crimes linked to the location assign_default_location created *)
OnFallback(db) ==
    LET fallback == LocationIdByLabel(db.LocationData, Some(AssignLabel))
    IN  IF IsNull(fallback) THEN {}
        ELSE {i \in DOMAIN db.CrimeData : db.CrimeData[i].location_id = fallback}

Unlocated(db) ==
    {i \in DOMAIN db.CrimeData : IsNull(db.CrimeData[i].location_id)}

(* C7: release_default_location_links(limit) resets to null the
   location_id of min(limit, n) of the n crimes on the fallback location
   and returns that number *)
C7_ReleasesFallback ==
    \A limit \in {1, MAX_API_ITEMS_PER_RUN} :
        LET n == Cardinality(OnFallback(DB))
            r == release_default_location_links(DB, limit)
        IN  /\ r.released = Min(limit, n)
            /\ Cardinality(Unlocated(r.db))
                   = Cardinality(Unlocated(DB)) + Min(limit, n)
            /\ Cardinality(OnFallback(r.db)) = n - Min(limit, n)

(* the labels insert_location is tried with: the fallback label, the label
   the geocoder gives when it names every place alike, a label no row
   carries, and the labels of the first and the last location *)
ProbedLabels ==
    {Some(AssignLabel), Some("London"), Some("nowhere")}
        \cup {LocationData[i].label : i \in Ends(LocationData) \cap LabelledLocations}

(* insert_location called with the label and other values than any stored:
   the id returned is that of the one row carrying the label, a second call
   returns it again, and a row that was there is left as it was *)
GetOrCreate(label) ==
    LET r == insert_location(DB, Some("elsewhere"), NULL, NULL, Some(0),
                             Some(0), label)
        again == insert_location(r.db, Some("thereafter"), NULL, NULL,
                                 Some(1), Some(1), label)
        carrying == {i \in DOMAIN r.db.LocationData :
                        r.db.LocationData[i].label = label}
    IN  /\ carrying = {Val(r.id)}
        /\ again.id = r.id
        /\ again.db = r.db
        /\ \A i \in DOMAIN LocationData :
               r.db.LocationData[i] = LocationData[i]
        /\ (\E i \in DOMAIN LocationData : LocationData[i].label = label)
               => r.db = DB

(* the positions of main at its start and right after a step that writes
   LocationData: every LocationData a run goes through is met at one *)
LocationsWritten ==
    {"start", "default", "seed_locations", "transit", "aborted"}

(* C8: no label is carried by two rows of LocationData (the labelled rows
   carry as many labels as they are); on every LocationData a run goes
   through, insert_location returns the id of the row carrying the label,
   the same on every call; and no step changes a stored row of
   LocationData *)
C8_GetOrCreateByLabel ==
    /\ [](Cardinality({LocationData[i].label : i \in LabelledLocations})
              = Cardinality(LabelledLocations))
    /\ [](pc \in LocationsWritten
              => \A label \in ProbedLabels : GetOrCreate(label))
    /\ [][\A i \in DOMAIN LocationData :
              /\ i \in DOMAIN LocationData'
              /\ LocationData'[i] = LocationData[i]]_vars

(* the geocoder named every place "London": the crimes geocoded in this
   run, at different coordinates, are all on the one row of that label *)
C8_Witness ==
    /\ world.geocoder = "same"
    /\ pc = "default"
    /\ requested.geocode = Some(MAX_API_ITEMS_PER_RUN)
    /\ \E i \in DOMAIN LocationData :
           /\ LocationData[i].label = Some("London")
           /\ \E a, b \in DOMAIN CrimeData :
                  /\ CrimeData[a].location_id = Some(i)
                  /\ CrimeData[b].location_id = Some(i)
                  /\ CrimeData[a].latitude # CrimeData[b].latitude

(* the rows of WeatherData with a location and a date *)
KeyedWeather ==
    {i \in DOMAIN WeatherData :
        ~IsNull(WeatherData[i].location_id) /\ ~IsNull(WeatherData[i].date)}

(* C9: no two rows of WeatherData share (location_id, date) (the rows carry
   as many pairs as they are), and no step,
   the refresh batch included, changes a stored row of WeatherData *)
C9_WeatherUniqueImmutable ==
    /\ [](Cardinality({<<WeatherData[i].location_id, WeatherData[i].date>> :
                           i \in KeyedWeather})
              = Cardinality(KeyedWeather))
    /\ [][\A i \in DOMAIN WeatherData :
              /\ i \in DOMAIN WeatherData'
              /\ WeatherData'[i] = WeatherData[i]]_vars

(* the refresh batch has run on a table at its target against a service
   that now reports other values than those stored: no row was added, and
   the first row is not what the service reports for it *)
C9_Witness ==
    /\ world.weather = "alt"
    /\ pc = "analysis"
    /\ start_counts.WeatherData >= MIN_WEATHER_ROWS
    /\ requested.weather = Some(MAX_API_ITEMS_PER_RUN)
    /\ Len(WeatherData) = start_counts.WeatherData
    /\ LET w == WeatherData[1]
           l == LocationData[Val(w.location_id)]
           now == Val(fetch_weather("alt", l.lat, l.lon, Val(w.date)))
       IN  w.temp_max_c # now.temp_max_c

(* the days of a month by the calendar, for the years of DateMonths *)
CalendarDays(year, month) ==
    CASE month = 2 -> IF year \in {2000, 2024} THEN 29 ELSE 28
      [] month \in {4, 6, 9, 11} -> 30
      [] OTHER -> 31

(* C10: for a valid month and any seed, derive_crime_date returns a date
   of the year and the month given, with a day from 1 to the number of days
   of that month (28 for 2023-02, 29 for 2024-02), and a second call with
   the same arguments returns the same date *)
C10_DateInMonth ==
    /\ [](ncalls > 0 /\ ~IsNull(arg_month) /\ Val(arg_month) \in ValidMonths
              => /\ ~IsNull(ret_date)
                 /\ Val(ret_date)[1] = MonthTable[Val(arg_month)][1]
                 /\ Val(ret_date)[2] = MonthTable[Val(arg_month)][2]
                 /\ Val(ret_date)[3] \in
                        1..CalendarDays(Val(ret_date)[1], Val(ret_date)[2])
                 /\ arg_month = Some("2023-02") => Val(ret_date)[3] <= 28
                 /\ arg_month = Some("2024-02") => Val(ret_date)[3] <= 29)
    /\ [][ncalls > 0 /\ ncalls' > ncalls => ret_date' = ret_date]_vars

(* derive_crime_date("2023-02", "X") has been called twice and gave
   2023-02-17 *)
C10_Witness ==
    /\ ncalls = 2
    /\ arg_month = Some("2023-02")
    /\ arg_seed = Some("X")
    /\ ret_date = Some(<<2023, 2, 17>>)

(* C11: a failure inside an adapter never aborts the run: main never ends
   in an exception, whatever the upstream services do *)
C11_NeverAborts == pc # "aborted"

(* some request of the geocode call main is about to make raises *)
GeocodeCallFails ==
    /\ pc = "geocode"
    /\ geocode_and_attach_locations(DB, GeocodePerRun(State),
                                    world.geocoder).raised

(* the transit call main is about to make gets an error answer *)
TransitCallFails ==
    /\ pc = "transit"
    /\ counts.TransitStops < MIN_TRANSIT_ROWS
    /\ world.transit = "error"

(* C12: an adapter call that hits a network error, an HTTP error or a
   timeout returns normally to main and inserts no row: main goes on to
   the next stage, and the table of the adapter is as before the call *)
C12_FailedCallZeroResult ==
    [][/\ GeocodeCallFails => pc' = "default"
       /\ TransitCallFails =>
              pc' = "seed_transit" /\ TransitStops' = TransitStops]_vars

(* C13: a call whose first request is answered HTTP 429 is retried exactly
   once: when the call has ended, two requests have been sent *)
C13_RetriesOnce ==
    (~IsNull(outcome) /\ answers[1] = "429") => sent = 2

(* the rotation index the store holds: 0 when no cursor is stored *)
StoredIndex(cursors) ==
    IF "transit_cycle" \in DOMAIN cursors
    THEN CHOOSE k \in 0..6 : cursors["transit_cycle"] = Some(Str(k))
    ELSE 0

(* the stored cursor, when there is one, is an integer of 0..6 *)
CursorInRange ==
    "transit_cycle" \in DOMAIN api_cursors =>
        \E k \in 0..6 : api_cursors["transit_cycle"] = Some(Str(k))

(* main is about to fetch transit stops *)
TransitFetch == pc = "transit" /\ counts.TransitStops < MIN_TRANSIT_ROWS

(* the rows a step appends to TransitStops come from the answer of the stop
   directory for configuration number k *)
UsesConfiguration(k) ==
    \A i \in (Len(TransitStops) + 1)..Len(TransitStops') :
        \E j \in DOMAIN TransitFeed(world.transit, k).stopPoints :
            Some(TransitStops'[i]) =
                normalize_stop(TransitFeed(world.transit, k).stopPoints[j])

(* the step uses the configuration the stored index names and stores the
   next index modulo 7 *)
Rotates ==
    /\ UsesConfiguration(StoredIndex(api_cursors))
    /\ "transit_cycle" \in DOMAIN api_cursors'
    /\ StoredIndex(api_cursors') = (StoredIndex(api_cursors) + 1) % 7

(* the rotation as far as it holds: for the runs whose call of
   fetch_transit_stops returns *)
RotationWhenFetchReturns ==
    /\ []CursorInRange
    /\ [][(TransitFetch /\ world.transit # "malformed") => Rotates]_vars

(* C14: the stored cursor is always in 0..6, and a run that fetches transit
   stops uses the configuration the stored index names and then stores the
   next index modulo 7, so that 7 such runs in a row use every
   configuration once *)
C14_Rotation == []CursorInRange /\ [][TransitFetch => Rotates]_vars

(* the categories _derive_weather_main can give, and the three bands *)
WeatherCategories ==
    {WEATHER_CODE_MAP[code] : code \in DOMAIN WEATHER_CODE_MAP} \cup {"Unknown"}

RainLevels == {"Dry", "Light Rain", "Heavy Rain"}

(* C15: when main computes the analysis, calculate_crimes_near_transit has
   a row for every mode of EXPECTED_TRANSIT_MODES, calculate_crimes_by_weather
   a row for every weather category and calculate_precipitation_effect a row
   for every band, whatever the store holds *)
C15_ZeroFilled ==
    pc = "analysis" =>
        /\ \A m \in EXPECTED_TRANSIT_MODES :
               \E r \in calculate_crimes_near_transit(DB) : r.mode = m
        /\ \A m \in WeatherCategories :
               \E r \in calculate_crimes_by_weather(DB) :
                   r.weather_main = Some(m)
        /\ \A b \in RainLevels :
               \E r \in calculate_precipitation_effect(DB) : r.rain_level = b

(* the weather rows of the store some crime is matched to *)
MatchedWeather ==
    {j \in DOMAIN WeatherData : CrimesOn(DB, WeatherData[j]) # {}}

(* the band the analysis counted the crimes of weather row j in: the band
   whose count the crimes of that row are part of *)
BandOf(j) == RainLevel(WeatherData[j].precip_mm)

(* C16: every crime matched to a weather row is counted in the band its
   precipitation p names: Dry when p = 0, Light Rain when 0 < p <= 2 mm,
   Heavy Rain when p > 2 mm, and in no band otherwise *)
C16_BandByPrecipitation ==
    ~IsNull(report) =>
        \A j \in MatchedWeather :
            LET p == WeatherData[j].precip_mm
                Counted(level) ==
                    /\ BandOf(j) = level
                    /\ \E r \in Val(report).rain :
                           /\ r.rain_level = level
                           /\ r.crime_count >=
                                  Cardinality(CrimesOn(DB, WeatherData[j]))
            IN  /\ Counted("Dry") <=> (~IsNull(p) /\ Val(p) = 0)
                /\ Counted("Light Rain") <=>
                       (~IsNull(p) /\ Val(p) > 0 /\ Val(p) <= 200)
                /\ Counted("Heavy Rain") <=> (~IsNull(p) /\ Val(p) > 200)

(* sum of the numbers f[i], i in DOMAIN f *)
SumSeq(f) == Fold(LAMBDA acc, x : acc + x, 0, f)

(* the sum of crime_count over the rows of the transit output, in
   hundredths *)
TransitTotal ==
    LET rows == Val(report).transit
        modes == {r.mode : r \in rows}
        Of(m) == (CHOOSE r \in rows : r.mode = m).crime_count
        RECURSIVE Total(_)
        Total(ms) ==
            IF ms = {} THEN 0
            ELSE LET m == CHOOSE x \in ms : TRUE
                 IN  Of(m) + Total(ms \ {m})
    IN  Total(modes)

(* the sum over the stops of their nearby-crime counts *)
NearbyTotal == SumSeq(NearbyCrimes(DB))

(* the modes the stops of the store serve *)
ServedModes ==
    UNION {{ModeList(TransitStops[t])[i] :
               i \in DOMAIN ModeList(TransitStops[t])} :
              t \in DOMAIN TransitStops}

(* a stop with k modes and c nearby crimes adds c/k to each of its modes,
   so its contributions sum to c *)
SplitsEvenly ==
    \A t \in DOMAIN TransitStops :
        LET k == ModeCount(TransitStops[t])
            c == NearbyCrimes(DB)[t]
        IN  /\ k * Weighted(c, k) = WeightUnit * c
            /\ \A m \in ServedModes :
                   ModeWeight(DB, NearbyCrimes(DB), m) >=
                       Cardinality({i \in DOMAIN ModeList(TransitStops[t]) :
                                       ModeList(TransitStops[t])[i] = m})
                           * Weighted(c, k)

(* C17 as stated: the contributions of a stop sum to its nearby crimes and
   the crime counts of the output add up to the sum of the per-stop
   nearby-crime counts *)
C17_TotalEqualsNearby ==
    (~IsNull(report) /\ TransitStops # <<>>) =>
        SplitsEvenly /\ TransitTotal = 100 * NearbyTotal

(* C17 amended: the contributions of a stop sum to its nearby crimes; the
   crime counts of the output are rounded to two decimals per mode, so
   their sum is the sum of the per-stop counts to within 0.005 per mode
   served *)
C17_TotalWithinRounding ==
    (~IsNull(report) /\ TransitStops # <<>>) =>
        /\ SplitsEvenly
        /\ 2 * (TransitTotal - 100 * NearbyTotal) \in
               -Cardinality(ServedModes)..Cardinality(ServedModes)

(* a stop with three modes and nearby crimes has been analysed *)
C17_Witness ==
    /\ ~IsNull(report)
    /\ \E t \in DOMAIN TransitStops :
           /\ ModeCount(TransitStops[t]) = 3
           /\ NearbyCrimes(DB)[t] >= 1

(* C18: a call of set_up_database on a store that set_up_database has
   already set up, with no write in between, leaves every table as it is *)
C18_SetupIdempotent == [][ncalls >= 1 => UNCHANGED tables]_vars

(* set_up_database has run twice on a store whose first set-up filled in a
   date and moved a street name to StreetData *)
C18_Witness ==
    /\ ncalls >= 2
    /\ DOMAIN StreetData # {}
    /\ \E pk \in DOMAIN CrimeData :
           /\ ~IsNull(CrimeData[pk].crime_date)
           /\ IsNull(CrimeData[pk].street_name)
           /\ ~IsNull(CrimeData[pk].street_id)

(* the place of a position of main in the order schema setup, crime
   adapter, geocode adapter with the fallback assignment, transit adapter,
   weather adapter, analysis *)
Rank(position) ==
    CASE position = "start" -> 0
      [] position = "crime" -> 1
      [] position \in {"release", "geocode", "default", "seed_locations"} -> 2
      [] position \in {"transit", "seed_transit"} -> 3
      [] position = "weather" -> 4
      [] position = "analysis" -> 5
      [] position \in {"done", "aborted"} -> 6

(* the columns of CrimeData the geocode stage writes, and the others *)
Links == [pk \in DOMAIN CrimeData |-> CrimeData[pk].location_id]

Incidents ==
    [pk \in DOMAIN CrimeData |-> [CrimeData[pk] EXCEPT !.location_id = NULL]]

(* C19: within a run the stages follow one another in the order schema
   setup, crime, geocode with fallback, transit, weather, analysis: no
   stage is skipped or taken early, an adapter writes its table only at
   its own place, after the setup, and the analysis comes after the
   weather adapter returned and writes nothing *)
C19_StageOrder ==
    [][/\ \/ pc' = "start" /\ pc \in {"done", "aborted"}
          \/ pc' = "aborted" /\ pc \in {"geocode", "transit", "weather"}
          \/ pc' # "start" /\ pc' # "aborted"
                 /\ Rank(pc') \in {Rank(pc), Rank(pc) + 1}
       /\ Incidents' # Incidents => pc \in {"start", "crime"}
       /\ StreetData' # StreetData => pc \in {"start", "crime"}
       /\ (Links' # Links /\ Len(CrimeData') = Len(CrimeData)) => Rank(pc) = 2
       /\ LocationData' # LocationData => Rank(pc) = 2
       /\ (TransitStops' # TransitStops \/ api_cursors' # api_cursors)
              => Rank(pc) = 3
       /\ WeatherData' # WeatherData => pc = "weather"
       /\ pc' = "analysis" => pc = "weather"
       /\ pc = "analysis" => pc' = "done" /\ UNCHANGED tables]_vars

(* a run has ended in which the four adapters were called *)
C19_Witness ==
    /\ pc = "done"
    /\ ~IsNull(requested.crime) /\ ~IsNull(requested.geocode)
    /\ ~IsNull(requested.transit) /\ ~IsNull(requested.weather)

(* crime_date IS NULL OR crime_date = '' *)
MissingDate(c) == IsNull(c.crime_date) \/ c.crime_date = Some(<<>>)

(* the date insert_crime stores for the record of row c *)
InsertedDate(c) == insert_crime(EmptyDB, c).CrimeData[1].crime_date

(* C20: the backfill of set_up_database gives every crime whose date is
   missing the date insert_crime stores for the same record, leaves the
   other dates as they are, and leaves no crime without a date *)
C20_BackfillAsInsert ==
    [][\A pk \in DOMAIN CrimeData :
           /\ MissingDate(CrimeData[pk]) =>
                  CrimeData'[pk].crime_date = InsertedDate(CrimeData[pk])
           /\ ~MissingDate(CrimeData[pk]) =>
                  CrimeData'[pk].crime_date = CrimeData[pk].crime_date
           /\ ~MissingDate(CrimeData'[pk])]_vars

(* the name StreetData holds for the street of crime row c, NULL when the
   row has no street_id or StreetData has no row for it *)
StreetNameOf(streets, c) ==
    IF IsNull(c.street_id) \/ Val(c.street_id) \notin DOMAIN streets THEN NULL
    ELSE streets[Val(c.street_id)]

(* C21: set_up_database (migrate_street_data) loses no street name: every
   crime row with a non-blank street_name before the call has a NULL
   street_name after it, and StreetData then holds that same name under the
   row's street_id *)
C21_MigrationKeepsNames ==
    [][\A pk \in DOMAIN CrimeData :
           NonBlank(CrimeData[pk].street_name) =>
               /\ IsNull(CrimeData'[pk].street_name)
               /\ StreetNameOf(StreetData', CrimeData'[pk])
                      = CrimeData[pk].street_name]_vars

(* the configuration number main passes to the transit adapter in this run *)
TransitConfiguration ==
    CycleIndex(get_api_cursor(DB, "transit_cycle", Some("0")))
        % Len(stop_type_cycle)

(* every (location, date) candidate of the weather adapter for which the
   service has an answer is stored in WeatherData of store db *)
WeatherExhausted(db, dates, service) ==
    \A l \in DOMAIN db.LocationData : \A i \in DOMAIN dates :
        LET loc == db.LocationData[l]
        IN  (~IsNull(loc.lat) /\ ~IsNull(loc.lon)
                /\ ~IsNull(fetch_weather(service, loc.lat, loc.lon, dates[i])))
            => WeatherConflict(db.WeatherData, Some(l), Some(dates[i]))

(* every stop of the response that carries an id is stored in TransitStops
   of store db *)
StopsExhausted(db, response) ==
    \A i \in DOMAIN response.stopPoints :
        LET stop == normalize_stop(response.stopPoints[i])
        IN  (~IsNull(stop) /\ TruthyStr(Val(stop).naptan_id))
            => StopConflict(db.TransitStops, Val(stop).naptan_id)

(* C22: the budget of the weather and of the transit adapter counts the
   rows added: a call with budget n returns when the table has grown by n
   or every candidate is stored, and the number it counts is the growth of
   the table *)
C22_BudgetCountsNewRows ==
    [][/\ (pc = "transit" /\ pc' = "seed_transit"
              /\ ~IsNull(requested'.transit)) =>
              LET n == Val(requested'.transit)
                  response == TransitFeed(world.transit, TransitConfiguration)
                  growth == Len(TransitStops') - Len(TransitStops)
              IN  /\ fetch_transit_stops(DB, n, response).inserted = growth
                  /\ growth = n \/ response.error
                         \/ StopsExhausted(DB', response)
       /\ (pc = "weather" /\ pc' = "analysis") =>
              LET n == Val(requested'.weather)
                  growth == Len(WeatherData') - Len(WeatherData)
              IN  /\ fetch_weather_for_all_locations(
                         DB, DATES(DB), n, world.weather).inserted = growth
                  /\ growth = n
                         \/ WeatherExhausted(DB', DATES(DB), world.weather)]_vars

(* the positions of main between the test of a table's count and the end
   of the work on that table *)
CrimePositions == {"crime"}

LocationPositions == {"release", "geocode", "default", "seed_locations"}

TransitPositions == {"transit", "seed_transit"}

(* C23: in a run that started with a table at its target of 100 rows or
   more, the source of that table is skipped: the crime adapter, the
   geocoder and the transit adapter are not called, CrimeData, LocationData
   and TransitStops gain no row and the transit cursor is not written; the
   weather adapter is still called, with a budget of 25 *)
C23_SkipAtTarget ==
    [][/\ (pc \in CrimePositions /\ start_counts.CrimeData >= 100) =>
              /\ IsNull(requested'.crime)
              /\ Len(CrimeData') = Len(CrimeData)
       /\ (pc \in LocationPositions /\ start_counts.LocationData >= 100) =>
              /\ pc' # "geocode"
              /\ IsNull(requested'.geocode)
              /\ Len(LocationData') = Len(LocationData)
       /\ (pc \in TransitPositions /\ start_counts.TransitStops >= 100) =>
              /\ IsNull(requested'.transit)
              /\ Len(TransitStops') = Len(TransitStops)
              /\ api_cursors' = api_cursors
       /\ (pc = "weather" /\ start_counts.WeatherData >= 100) =>
              \/ pc' = "aborted"
              \/ requested'.weather = Some(25)]_vars

(* a run that started with the four tables at their targets has ended: the
   weather adapter was called with 25 and no other adapter was called *)
C23_Witness ==
    /\ pc = "done"
    /\ start_counts.CrimeData >= 100 /\ start_counts.LocationData >= 100
    /\ start_counts.TransitStops >= 100 /\ start_counts.WeatherData >= 100
    /\ requested = [NoRequests EXCEPT !.weather = Some(25)]

(* the location, the latitude or the longitude of a raw incident is
   missing or null *)
MissingCoordinates(raw) ==
    \/ IsNull(raw.location)
    \/ IsNull(Val(raw.location).latitude)
    \/ IsNull(Val(raw.location).longitude)

(* the incidents the crime adapter passes to insert_crime in this run *)
Batch == Take(CrimeFeed(world.crime, world.month), Val(requested.crime))

(* row holds the fields of the normalized incident c *)
RowOf(row, c) ==
    /\ row.crime_id = c.crime_id /\ row.persistent_id = c.persistent_id
    /\ row.month = c.month /\ row.category = c.category
    /\ row.latitude = c.latitude /\ row.longitude = c.longitude

(* the id of the location the fallback step links to, NULL if none yet *)
DefaultLocation == LocationIdByLabel(LocationData, Some(AssignLabel))

(* C24: an incident with a missing location, latitude or longitude is
   normalized to a record with a null coordinate and stored by insert_crime
   (unless its crime_id is already stored); a stored crime with a null
   coordinate is never linked by the geocoder, and is on the default
   location once the fallback step has run *)
C24_MissingCoordinatesKept ==
    /\ (pc = "release" /\ ~IsNull(requested.crime)) =>
           LET batch == Batch
           IN  \A i \in DOMAIN batch :
                   MissingCoordinates(batch[i]) =>
                       LET c == normalize_crime(batch[i])
                       IN  /\ IsNull(c.latitude) \/ IsNull(c.longitude)
                           /\ \E pk \in DOMAIN CrimeData :
                                  \/ RowOf(CrimeData[pk], c)
                                  \/ /\ ~IsNull(c.crime_id)
                                     /\ CrimeData[pk].crime_id = c.crime_id
                                     /\ pk <= start_counts.CrimeData
    /\ LET bare == {pk \in DOMAIN CrimeData :
                       \/ IsNull(CrimeData[pk].latitude)
                       \/ IsNull(CrimeData[pk].longitude)}
           fallback == DefaultLocation
       IN  \A pk \in bare :
               /\ CrimeData[pk].location_id \in {NULL, fallback}
               /\ pc \in AfterDefault => ~IsNull(CrimeData[pk].location_id)

(* a run has ended that stored an incident with no location, one with no
   latitude and one with no longitude: the three are on the default
   location *)
C24_Witness ==
    /\ pc = "done"
    /\ \E i, j, k \in DOMAIN CrimeData :
           /\ IsNull(CrimeData[i].latitude) /\ IsNull(CrimeData[i].longitude)
           /\ IsNull(CrimeData[j].latitude) /\ ~IsNull(CrimeData[j].longitude)
           /\ ~IsNull(CrimeData[k].latitude) /\ IsNull(CrimeData[k].longitude)
           /\ \A pk \in {i, j, k} :
                  /\ ~IsNull(DefaultLocation)
                  /\ CrimeData[pk].location_id = DefaultLocation

(* crime row c without its location reference and its derived date *)
Core(c) == [c EXCEPT !.location_id = NULL, !.crime_date = NULL]

(* C25 as stated: no step deletes a crime row, and a step changes of a
   stored crime row at most location_id and crime_date *)
C25_OnlyLinkAndDate ==
    [][/\ Len(CrimeData') >= Len(CrimeData)
       /\ \A pk \in DOMAIN CrimeData : Core(CrimeData'[pk]) = Core(CrimeData[pk])]_vars

(* C25 amended: no step deletes a crime row, and a step changes of a stored
   crime row at most location_id, crime_date and street_name, the last
   only from a value to NULL *)
C25_OnlyLinkDateAndStreetName ==
    [][/\ Len(CrimeData') >= Len(CrimeData)
       /\ \A pk \in DOMAIN CrimeData :
              /\ [Core(CrimeData'[pk]) EXCEPT !.street_name = NULL]
                     = [Core(CrimeData[pk]) EXCEPT !.street_name = NULL]
              /\ CrimeData'[pk].street_name \in {CrimeData[pk].street_name, NULL}]_vars

(* a later run has set up the store and linked crimes: a stored crime has
   lost its street_name to StreetData and holds a location and a date *)
C25_Witness ==
    /\ pc = "done"
    /\ \E pk \in DOMAIN CrimeData :
           /\ pk <= start_counts.CrimeData
           /\ IsNull(CrimeData[pk].street_name)
           /\ ~IsNull(CrimeData[pk].street_id)
           /\ Val(CrimeData[pk].street_id) \in DOMAIN StreetData
           /\ ~IsNull(CrimeData[pk].location_id)
           /\ ~IsNull(CrimeData[pk].crime_date)

(* the labels of the fallback location: the one assign_default_location
   creates and the one release_default_location_links looks up *)
FallbackLabels == {Some(AssignLabel), Some(ReleaseLabel)}

(* crime row c is linked to a location that is not the fallback location *)
Geocoded(c) ==
    /\ ~IsNull(c.location_id)
    /\ LocationData[Val(c.location_id)].label \notin FallbackLabels

(* C26: a step writes the location_id of a crime only if it is null, or if
   the step is release_default_location_links and the crime is on the
   fallback location; so a crime linked to a geocoded location keeps its
   location_id in every step of every run *)
C26_LinksOnlyWritten ==
    [][\A pk \in DOMAIN CrimeData :
           /\ CrimeData'[pk].location_id # CrimeData[pk].location_id =>
                  \/ IsNull(CrimeData[pk].location_id)
                  \/ pc = "release" /\ ~Geocoded(CrimeData[pk])
           /\ Geocoded(CrimeData[pk]) =>
                  CrimeData'[pk].location_id = CrimeData[pk].location_id]_vars

(* a later run that called release_default_location_links and the geocoder
   has ended, with a crime of an earlier run on a geocoded location and a
   crime of this run linked by the geocoder *)
C26_Witness ==
    /\ pc = "done"
    /\ ~IsNull(released) /\ ~IsNull(requested.geocode)
    /\ \E pk, qk \in DOMAIN CrimeData :
           /\ pk <= start_counts.CrimeData /\ Geocoded(CrimeData[pk])
           /\ qk > start_counts.CrimeData /\ Geocoded(CrimeData[qk])

(* the sum of crime_count over the rows of a grouped output *)
RECURSIVE SumOfCounts(_)
SumOfCounts(rows) ==
    IF rows = {} THEN 0
    ELSE LET r == CHOOSE x \in rows : TRUE
         IN  r.crime_count + SumOfCounts(rows \ {r})

(* the crimes for which a weather row of the same location and of the
   crime's derived date exists *)
MatchedCrimes ==
    {i \in DOMAIN CrimeData :
        \E j \in DOMAIN WeatherData : Matched(CrimeData[i], WeatherData[j])}

(* C27: the crime counts of the wind output, and those of the
   precipitation output, add up to the number of crimes that have a
   weather row for their location and derived date: no crime is counted
   twice *)
C27_CountedOnce ==
    ~IsNull(report) =>
        /\ SumOfCounts(Val(report).wind) = Cardinality(MatchedCrimes)
        /\ SumOfCounts(Val(report).rain) = Cardinality(MatchedCrimes)

(* the outputs were computed on a store with a crime that has a weather
   row, stored at the second attempt of the adapter as well as the first,
   and a crime that has none *)
C27_Witness ==
    /\ ~IsNull(report)
    /\ MatchedCrimes # {}
    /\ MatchedCrimes # DOMAIN CrimeData
    /\ Val(report).wind # {} /\ Val(report).rain # {}

(* the weather codes looked at: null, and the integers from -1 to 100,
   which hold every key of WEATHER_CODE_MAP and integers that are no key *)
WeatherCodes == {NULL} \cup {Some(k) : k \in -1..100}

(* the category of each integer looked at: its entry in WEATHER_CODE_MAP,
   or "Unknown" *)
CategoryTable ==
    [k \in -1..100 |->
        IF \E key \in DOMAIN WEATHER_CODE_MAP : key = k
        THEN WEATHER_CODE_MAP[CHOOSE key \in DOMAIN WEATHER_CODE_MAP : key = k]
        ELSE "Unknown"] @@ <<>>

(* the category of a code *)
CategoryOf(code) ==
    IF IsNull(code) THEN "Unknown" ELSE CategoryTable[Val(code)]

(* the weathercode the service answers for the location and date of
   weather row w *)
CodeAnswered(w) ==
    LET loc == LocationData[Val(w.location_id)]
    IN  Val(WeatherService(world.weather, loc.lat, loc.lon, Val(w.date)))
            .weathercode

(* the weather rows the current run has stored *)
NewWeather == {j \in DOMAIN WeatherData : j > start_counts.WeatherData}

(* C28: _derive_weather_main answers, for every code, the entry of the
   code in WEATHER_CODE_MAP or "Unknown" when the code is null or has no
   entry, and every row the weather adapter stores carries the category of
   the code the service answered *)
C28_CategoryTotal ==
    /\ \A code \in WeatherCodes : derive_weather_main(code) = CategoryOf(code)
    /\ pc = "analysis" =>
           \A j \in NewWeather :
               WeatherData[j].weather_main
                   = Some(CategoryOf(CodeAnswered(WeatherData[j])))

(* the weather adapter has stored a row for an answer with a null code and
   a row for an answer whose code has no entry, both as "Unknown", and a
   row with a mapped category *)
C28_Witness ==
    /\ pc = "analysis"
    /\ \E i, j, k \in NewWeather :
           /\ IsNull(CodeAnswered(WeatherData[i]))
           /\ WeatherData[i].weather_main = Some("Unknown")
           /\ CodeAnswered(WeatherData[j]) = Some(100)
           /\ WeatherData[j].weather_main = Some("Unknown")
           /\ CodeAnswered(WeatherData[k]) = Some(61)
           /\ WeatherData[k].weather_main = Some("Light Rain")

(* the rows of table before are the first rows of table after *)
Untouched(before, after) ==
    /\ Len(after) >= Len(before)
    /\ SubSeq(after, 1, Len(before)) = before

(* the step is the seeding call `name` *)
SeedCall(name) ==
    /\ ncalls' = ncalls + 1
    /\ ~IsNull(outcome')
    /\ Val(outcome').call = name

(* C29: after seed_locations(conn, T) LocationData holds at least T rows,
   the rows it held are untouched, no two rows share a label, and the
   number returned is the number of rows added; the same for
   seed_transit_stops, TransitStops and the stop ids *)
C29_SeedReachesTarget ==
    [][/\ SeedCall("seed_locations") =>
              /\ Len(LocationData') >= Val(outcome').target
              /\ Untouched(LocationData, LocationData')
              /\ \A i, j \in DOMAIN LocationData' :
                     LocationData'[i].label = LocationData'[j].label => i = j
              /\ Val(outcome').added = Len(LocationData') - Len(LocationData)
              /\ TransitStops' = TransitStops
       /\ SeedCall("seed_transit_stops") =>
              /\ Len(TransitStops') >= Val(outcome').target
              /\ Untouched(TransitStops, TransitStops')
              /\ \A i, j \in DOMAIN TransitStops' :
                     TransitStops'[i].naptan_id = TransitStops'[j].naptan_id
                         => i = j
              /\ Val(outcome').added = Len(TransitStops') - Len(TransitStops)
              /\ LocationData' = LocationData]_vars

(* a second seeding call has added rows to a table that holds rows of an
   earlier seeding call and a row of the adapter *)
C29_Witness ==
    /\ ~IsNull(outcome)
    /\ Val(outcome).call = "seed_locations"
    /\ Val(outcome).added >= 1
    /\ Len(LocationData) = MaxSeedTarget
    /\ LocationData[1].label = Some("SYNTH_LOC_1")
    /\ \E i \in DOMAIN LocationData :
           LocationData[i].county = Some("Greater London")
    /\ LocationData[Len(LocationData)].label
           = Some("SYNTH_LOC_" \o Str(MaxSeedTarget))

(* the step is the call `name` of the cursor store *)
CursorCall(name) ==
    /\ ncalls' = ncalls + 1
    /\ ~IsNull(outcome')
    /\ Val(outcome').call = name

(* the step is set_api_cursor for api_name *)
SetsCursorOf(api_name) ==
    CursorCall("set_api_cursor") /\ Val(outcome').api_name = api_name

(* C30: before any set_api_cursor, get_api_cursor returns the default
   supplied; set_api_cursor(name, v) makes get_api_cursor(name, d) return
   v for every d, and no other call (a set for another name, a get, the
   start of a run) changes what get_api_cursor(name, d) returns; a call of
   get_api_cursor returns that value and leaves the store as it is.  So
   the store holds one value per name: the one of the most recent set. *)
C30_CursorLastSet ==
    /\ [](ncalls = 0 =>
             \A api_name \in CursorNames, default \in CursorDefaults :
                 get_api_cursor(DB, api_name, default) = default)
    /\ [][/\ \A api_name \in CursorNames, default \in CursorDefaults :
                 get_api_cursor(DB', api_name, default)
                     = IF SetsCursorOf(api_name) THEN Val(outcome').value
                       ELSE get_api_cursor(DB, api_name, default)
          /\ CursorCall("get_api_cursor") =>
                 /\ Val(outcome').value
                        = get_api_cursor(DB', Val(outcome').api_name,
                                         Val(outcome').default)
                 /\ UNCHANGED tables]_vars

(* get_api_cursor has returned "1" for a name, with "0" as the default,
   after sets for both names *)
C30_Witness ==
    /\ ~IsNull(outcome)
    /\ Val(outcome).call = "get_api_cursor"
    /\ Val(outcome).api_name = "transit_cycle"
    /\ Val(outcome).default = Some("0")
    /\ Val(outcome).value = Some("1")
    /\ DOMAIN api_cursors = CursorNames
====
